---------------------------- MODULE Spec2Model ----------------------------
(***************************************************************************)
(* A model of the rocket mesh pipeline of "import plotly.py": the five     *)
(* primitive generators, the five transform operators and the scene graph  *)
(* traversal build_scene.                                                  *)
(*                                                                         *)
(* Numbers.  The program computes in IEEE 754 doubles (numpy float64), and *)
(* so does the model: a double is the tuple <<s, e, m3, m2, m1, m0>> of    *)
(* value  s * (m3*2^42 + m2*2^28 + m1*2^14 + m0) * 2^(e-55),  with s the   *)
(* sign 1 or -1, 2^e <= |value| < 2^(e+1), and the 53-bit significand      *)
(* followed by three zero bits held in four limbs of 14 bits (m3 >= 2^13,  *)
(* m0 a multiple of 8).  0 is <<0, 0, 0, 0, 0, 0>>.  Sums, products and    *)
(* quotients are rounded to the nearest double, a tie to the even one, as  *)
(* the hardware rounds them, so every coordinate of the model is the       *)
(* double the program computes.  1.0 is <<1, 0, 8192, 0, 0, 0>>, 0.1 is    *)
(* Float(100) = <<1, -4, 13107, 3276, 13107, 3280>>.  The sign of a zero,  *)
(* subnormal numbers, infinities and NaN are not modelled; no input of     *)
(* the model reaches them.                                                 *)
(*                                                                         *)
(* np.sin and np.cos are library functions: the model holds their values   *)
(* in TrigTable, for the angles of every whole number of degrees up to     *)
(* 360 and of every segment count up to 12 and of 15, 20 and 30.           *)
(*                                                                         *)
(* Indices.  Face entries are the program's 0-based vertex indices; the    *)
(* vertex with index k is element k+1 of the TLA+ sequence.                *)
(***************************************************************************)
EXTENDS Integers, Sequences, FiniteSets

VARIABLES calls, stdout

vars == <<calls, stdout>>

---------------------------------------------------------------------------
(* Bounds of the explored inputs *)

\* segment counts 1..MaxSegments are tried for every curved generator
MaxSegments == 5

\* a working vertex set goes through at most MaxChain transform calls
MaxChain == 2

\* scene trees of at most MaxNodes nodes (groups and leaves) are traversed
MaxNodes == 4

\* transformation lists of at most MaxTransforms entries are tried
MaxTransforms == 3

---------------------------------------------------------------------------
(* float64 arithmetic *)

\* the base of a limb, 2^14
Base == 16384

\* the leading bit of the top limb, 2^13
HalfBase == 8192

\* Pow2[k + 1] is 2^k
Pow2 == <<1, 2, 4, 8, 16, 32, 64, 128, 256, 512, 1024, 2048, 4096, 8192, 16384>>

\* 0.0
Zero == <<0, 0, 0, 0, 0, 0>>

\* the number of bits of n, 0 < n < 2^14
BitLength(n) ==
    IF n >= 128
    THEN IF n >= 2048
         THEN IF n >= 8192 THEN 14 ELSE IF n >= 4096 THEN 13 ELSE 12
         ELSE IF n >= 512 THEN IF n >= 1024 THEN 11 ELSE 10
              ELSE IF n >= 256 THEN 9 ELSE 8
    ELSE IF n >= 8
         THEN IF n >= 32 THEN IF n >= 64 THEN 7 ELSE 6
              ELSE IF n >= 16 THEN 5 ELSE 4
         ELSE IF n >= 4 THEN 3 ELSE IF n >= 2 THEN 2 ELSE 1

Flag(b) == IF b THEN 1 ELSE 0

\* the significand t3 t2 t1 with the low limb c0 <= 2^14 after an increment:
\* the carry runs upward, and a significand of 2^56 becomes 2^55 with the
\* exponent one higher
RoundUp(s, e, t3, t2, t1, c0) ==
    IF c0 < Base THEN <<s, e, t3, t2, t1, c0>>
    ELSE IF t1 + 1 < Base THEN <<s, e, t3, t2, t1 + 1, 0>>
    ELSE IF t2 + 1 < Base THEN <<s, e, t3, t2 + 1, 0, 0>>
    ELSE IF t3 + 1 < Base THEN <<s, e, t3 + 1, 0, 0, 0>>
    ELSE <<s, e + 1, HalfBase, 0, 0, 0>>

\* the double nearest to a 56-bit significand t3 t2 t1 t0 (t3 >= 2^13) whose
\* last three bits, and the flag st of nonzero bits dropped below them, lie
\* beyond the 53 bits of a double: round to nearest, a tie to even
Pack(s, e, t3, t2, t1, t0, st) ==
    IF t0 % 8 > 4 \/ (t0 % 8 = 4 /\ (st = 1 \/ (t0 \div 8) % 2 = 1))
    THEN RoundUp(s, e, t3, t2, t1, t0 - (t0 % 8) + 8)
    ELSE <<s, e, t3, t2, t1, t0 - (t0 % 8)>>

\* the significand shifted left by the bits that p = 2^k stands for
\* (q = 2^(14-k)), then rounded
ShiftLeft(s, e, t3, t2, t1, t0, st, p, q) ==
    Pack(s, e, t3 * p + t2 \div q, (t2 % q) * p + t1 \div q,
         (t1 % q) * p + t0 \div q, (t0 % q) * p, st)

RECURSIVE Normalize(_, _, _, _, _, _, _)
\* the double of a significand below 2^56: shifted left until its leading
\* bit is bit 55, the exponent lowered as much
Normalize(s, e, t3, t2, t1, t0, st) ==
    IF t3 >= HalfBase THEN Pack(s, e, t3, t2, t1, t0, st)
    ELSE IF t3 = 0
    THEN IF t2 = 0 /\ t1 = 0 /\ t0 = 0 THEN Zero
         ELSE Normalize(s, e - 14, t2, t1, t0, 0, st)
    ELSE ShiftLeft(s, e - (14 - BitLength(t3)), t3, t2, t1, t0, st,
                   Pow2[14 - BitLength(t3) + 1], Pow2[BitLength(t3) + 1])

\* the double of a significand below 2^57 (t4 is 0 or 1)
Normalize5(s, e, t4, t3, t2, t1, t0, st) ==
    IF t4 = 1
    THEN Pack(s, e + 1, HalfBase + t3 \div 2, (t3 % 2) * HalfBase + t2 \div 2,
              (t2 % 2) * HalfBase + t1 \div 2, (t1 % 2) * HalfBase + t0 \div 2,
              Flag(st = 1 \/ t0 % 2 = 1))
    ELSE Normalize(s, e, t3, t2, t1, t0, st)

\* -a
FNeg(a) == <<-a[1], a[2], a[3], a[4], a[5], a[6]>>

\* |a|
FAbs(a) == IF a[1] < 0 THEN FNeg(a) ELSE a

\* the columns of the long multiplication of two significands, lowest first
Columns(a, b) ==
    << a[6] * b[6],
       a[6] * b[5] + a[5] * b[6],
       a[6] * b[4] + a[5] * b[5] + a[4] * b[6],
       a[6] * b[3] + a[5] * b[4] + a[4] * b[5] + a[3] * b[6],
       a[5] * b[3] + a[4] * b[4] + a[3] * b[5],
       a[4] * b[3] + a[3] * b[4],
       a[3] * b[3] >>

RECURSIVE Carry(_, _, _)
\* the limbs of the number with columns c[n], c[n+1], ... and carry k,
\* lowest first, the carry out last
Carry(c, n, k) ==
    IF n > Len(c) THEN <<k>>
    ELSE <<(c[n] + k) % Base>> \o Carry(c, n + 1, (c[n] + k) \div Base)

\* the double of the 112-bit product p (eight limbs, lowest first)
MulRound(s, e, p) ==
    IF p[8] >= HalfBase
    THEN Pack(s, e + 1, p[8], p[7], p[6], p[5],
              Flag(p[4] # 0 \/ p[3] # 0 \/ p[2] # 0 \/ p[1] # 0))
    ELSE Pack(s, e, 2 * p[8] + p[7] \div HalfBase,
              2 * (p[7] % HalfBase) + p[6] \div HalfBase,
              2 * (p[6] % HalfBase) + p[5] \div HalfBase,
              2 * (p[5] % HalfBase) + p[4] \div HalfBase,
              Flag(p[4] % HalfBase # 0 \/ p[3] # 0 \/ p[2] # 0 \/ p[1] # 0))

\* a * b of two float64
FMul(a, b) ==
    IF a[1] = 0 \/ b[1] = 0 THEN Zero
    ELSE MulRound(a[1] * b[1], a[2] + b[2], Carry(Columns(a, b), 1, 0))

\* |a| >= |b| for a and b other than 0
MagnitudeGE(a, b) ==
    IF a[2] # b[2] THEN a[2] > b[2]
    ELSE IF a[3] # b[3] THEN a[3] > b[3]
    ELSE IF a[4] # b[4] THEN a[4] > b[4]
    ELSE IF a[5] # b[5] THEN a[5] > b[5]
    ELSE a[6] >= b[6]

\* limb n of the significand of b, limb 0 the lowest; 0 above the top limb
Limb(b, n) == IF n <= 3 THEN b[6 - n] ELSE 0

\* the significand of b shifted right by q limbs and the bits p = 2^k stands
\* for (c = 2^(14-k)), and the flag of nonzero bits shifted out
ShiftRight(b, q, p, c) ==
    << Limb(b, q + 3) \div p + (Limb(b, q + 4) % p) * c,
       Limb(b, q + 2) \div p + (Limb(b, q + 3) % p) * c,
       Limb(b, q + 1) \div p + (Limb(b, q + 2) % p) * c,
       Limb(b, q) \div p + (Limb(b, q + 1) % p) * c,
       Flag(Limb(b, q) % p # 0 \/ \E j \in 0..(q - 1) : Limb(b, j) # 0) >>

\* the significand of b brought to an exponent d higher
Aligned(b, d) ==
    IF d >= 56 THEN <<0, 0, 0, 0, 1>>
    ELSE ShiftRight(b, d \div 14, Pow2[(d % 14) + 1], Pow2[15 - (d % 14)])

\* a + b with |a| >= |b| and n the aligned significand of b: the
\* significands are added when the signs agree and subtracted when not
\* the double of the sum k of two significands (limbs lowest first, the
\* carry last)
Sum(s, e, k, st) == Normalize5(s, e, k[5], k[4], k[3], k[2], k[1], st)

\* the double of the difference k of two significands
Difference(s, e, k, st) == Normalize(s, e, k[4], k[3], k[2], k[1], st)

AddAligned(a, b, n) ==
    IF a[1] = b[1]
    THEN Sum(a[1], a[2],
             Carry(<<a[6] + n[4], a[5] + n[3], a[4] + n[2], a[3] + n[1]>>, 1, 0), n[5])
    ELSE Difference(a[1], a[2],
             Carry(<<a[6] - n[4] - n[5], a[5] - n[3], a[4] - n[2], a[3] - n[1]>>, 1, 0),
             n[5])

\* the one of a and b of the larger magnitude, a when they are equal
Larger(a, b) == IF MagnitudeGE(a, b) THEN a ELSE b

\* the other one
Smaller(a, b) == IF MagnitudeGE(a, b) THEN b ELSE a

\* a + b with |a| >= |b|
AddOrdered(a, b) == AddAligned(a, b, Aligned(b, a[2] - b[2]))

\* a + b of two float64
FAdd(a, b) ==
    IF a[1] = 0 THEN b
    ELSE IF b[1] = 0 THEN a
    ELSE AddOrdered(Larger(a, b), Smaller(a, b))

\* a - b of two float64
FSub(a, b) == FAdd(a, FNeg(b))

\* the float64 of an integer, |n| < 2^28
FromInt(n) ==
    IF n = 0 THEN Zero
    ELSE IF n > 0
    THEN Normalize(1, 41, n \div (Base * Base), (n \div Base) % Base, n % Base, 0, 0)
    ELSE Normalize(-1, 41, (-n) \div (Base * Base), ((-n) \div Base) % Base,
                   (-n) % Base, 0, 0)

RECURSIVE LongDivision(_, _, _, _)
\* the limbs of the quotient of u[k], u[k+1], ... (highest first) by n,
\* with r the remainder so far; the last remainder comes last
LongDivision(u, k, r, n) ==
    IF k > Len(u) THEN <<r>>
    ELSE <<(r * Base + u[k]) \div n>>
            \o LongDivision(u, k + 1, (r * Base + u[k]) % n, n)

\* the five limbs u4 .. u0 (u4 > 0) shifted right to a 56-bit significand:
\* p = 2^k for the k bits of u4, c = 2^(14-k)
Frame(s, e, u4, u3, u2, u1, u0, st, p, c) ==
    Pack(s, e, u4 * c + u3 \div p, (u3 % p) * c + u2 \div p,
         (u2 % p) * c + u1 \div p, (u1 % p) * c + u0 \div p,
         Flag(st = 1 \/ u0 % p # 0))

\* the double of the quotient q (six limbs, highest first, and the remainder)
DivRound(s, e, q) ==
    IF q[1] # 0
    THEN Frame(s, e - 14 + BitLength(q[1]), q[1], q[2], q[3], q[4], q[5],
               Flag(q[6] # 0 \/ q[7] # 0),
               Pow2[BitLength(q[1]) + 1], Pow2[14 - BitLength(q[1]) + 1])
    ELSE IF q[2] # 0
    THEN Frame(s, e - 28 + BitLength(q[2]), q[2], q[3], q[4], q[5], q[6],
               Flag(q[7] # 0),
               Pow2[BitLength(q[2]) + 1], Pow2[14 - BitLength(q[2]) + 1])
    ELSE Frame(s, e - 42 + BitLength(q[3]), q[3], q[4], q[5], q[6], 0,
               Flag(q[7] # 0),
               Pow2[BitLength(q[3]) + 1], Pow2[14 - BitLength(q[3]) + 1])

\* a / n of a float64 and an integer, 0 < n < 2^16
FDiv(a, n) ==
    IF a[1] = 0 THEN Zero
    ELSE DivRound(a[1], a[2], LongDivision(<<a[3], a[4], a[5], a[6], 0, 0>>, 1, 0, n))

\* a <= b of two float64
FLessEq(a, b) ==
    IF a[1] # b[1] THEN a[1] < b[1]
    ELSE IF a[1] = 0 THEN TRUE
    ELSE IF a[1] > 0 THEN MagnitudeGE(b, a)
    ELSE MagnitudeGE(a, b)

\* the double a decimal literal of m thousandths denotes: 0.7 is Float(700)
Float(m) == FDiv(FromInt(m), 1000)

\* np.pi, 3.141592653589793
np_pi == <<1, 1, 12867, 15786, 2181, 10432>>

\* np.deg2rad(angle_deg) of a whole number of degrees: angle_deg * (pi / 180)
deg2rad(angle_deg) == FMul(FromInt(angle_deg), FDiv(np_pi, 180))

\* the rows <<x, sin(x), cos(x)>> of the sines and cosines of the positive
\* angles x, in ascending order
TrigTable ==
    << << <<1, -6, 9150, 9041, 2643, 10696>>, <<1, -6, 9150, 1429, 12603, 10480>>, <<1, -1, 16381, 8267, 16053, 15440>> >>,
       << <<1, -5, 9150, 9041, 2643, 10696>>, <<1, -5, 9148, 11364, 16123, 8504>>, <<1, -1, 16374, 316, 6112, 11064>> >>,
       << <<1, -5, 13725, 13561, 12157, 7856>>, <<1, -5, 13719, 9124, 7673, 2160>>, <<1, -1, 16361, 8950, 8796, 12520>> >>,
       << <<1, -4, 9150, 9041, 2643, 10696>>, <<1, -4, 9143, 1974, 11594, 2368>>, <<1, -1, 16344, 1464, 11807, 16304>> >>,
       << <<1, -4, 11438, 3109, 7400, 9272>>, <<1, -4, 11423, 11100, 6224, 2064>>, <<1, -1, 16321, 10714, 770, 11536>> >>,
       << <<1, -4, 13725, 13561, 12157, 7840>>, <<1, -4, 13700, 12365, 10122, 15184>>, <<1, -1, 16294, 4042, 7948, 15920>> >>,
       << <<1, -4, 13725, 13561, 12157, 7856>>, <<1, -4, 13700, 12365, 10122, 15200>>, <<1, -1, 16294, 4042, 7948, 15920>> >>,
       << <<1, -4, 16013, 7630, 530, 6432>>, <<1, -4, 15973, 10790, 2540, 5784>>, <<1, -1, 16261, 14354, 13383, 13400>> >>,
       << <<1, -3, 9150, 9041, 2643, 10696>>, <<1, -3, 9120, 13899, 4531, 12488>>, <<1, -1, 16224, 9044, 9746, 9168>> >>,
       << <<1, -3, 9358, 8501, 14991, 12016>>, <<1, -3, 9326, 12210, 488, 9904>>, <<1, -1, 16217, 3842, 1800, 6016>> >>,
       << <<1, -3, 9358, 8501, 14991, 12072>>, <<1, -3, 9326, 12210, 488, 9960>>, <<1, -1, 16217, 3842, 1800, 6008>> >>,
       << <<1, -3, 10294, 6075, 5022, 1784>>, <<1, -3, 10252, 1459, 13578, 7072>>, <<1, -1, 16182, 4682, 1532, 8928>> >>,
       << <<1, -3, 10294, 6075, 5022, 1792>>, <<1, -3, 10252, 1459, 13578, 7080>>, <<1, -1, 16182, 4682, 1532, 8928>> >>,
       << <<1, -3, 10294, 6075, 5022, 1832>>, <<1, -3, 10252, 1459, 13578, 7120>>, <<1, -1, 16182, 4682, 1532, 8920>> >>,
       << <<1, -3, 11438, 3109, 7400, 9272>>, <<1, -3, 11380, 3391, 366, 7240>>, <<1, -1, 16135, 1478, 4131, 8376>> >>,
       << <<1, -3, 11438, 3109, 7400, 9296>>, <<1, -3, 11380, 3391, 366, 7264>>, <<1, -1, 16135, 1478, 4131, 8376>> >>,
       << <<1, -3, 12582, 143, 9779, 368>>, <<1, -3, 12504, 14062, 11980, 4728>>, <<1, -1, 16082, 16052, 10006, 13840>> >>,
       << <<1, -3, 13725, 13561, 12157, 7840>>, <<1, -3, 13625, 11478, 2123, 1952>>, <<1, -1, 16025, 15897, 3904, 1024>> >>,
       << <<1, -3, 13725, 13561, 12157, 7848>>, <<1, -3, 13625, 11478, 2123, 1960>>, <<1, -1, 16025, 15897, 3904, 1024>> >>,
       << <<1, -3, 13725, 13561, 12157, 7856>>, <<1, -3, 13625, 11478, 2123, 1968>>, <<1, -1, 16025, 15897, 3904, 1024>> >>,
       << <<1, -3, 14706, 3997, 14196, 2528>>, <<1, -3, 14583, 2161, 8264, 11248>>, <<1, -1, 15973, 3586, 11037, 2888>> >>,
       << <<1, -3, 14706, 3997, 14196, 2584>>, <<1, -3, 14583, 2161, 8264, 11304>>, <<1, -1, 15973, 3586, 11037, 2888>> >>,
       << <<1, -3, 14869, 10595, 14535, 15336>>, <<1, -3, 14742, 6427, 6584, 13224>>, <<1, -1, 15964, 1296, 10704, 14456>> >>,
       << <<1, -3, 16013, 7630, 530, 6432>>, <<1, -3, 15854, 9721, 7319, 2280>>, <<1, -1, 15897, 5327, 12087, 4392>> >>,
       << <<1, -2, 8578, 10524, 1454, 6944>>, <<1, -2, 8480, 16096, 12896, 13432>>, <<1, -1, 15825, 11939, 10519, 14504>> >>,
       << <<1, -2, 8578, 10524, 1454, 6952>>, <<1, -2, 8480, 16096, 12896, 13440>>, <<1, -1, 15825, 11939, 10519, 14504>> >>,
       << <<1, -2, 8578, 10524, 1454, 6968>>, <<1, -2, 8480, 16096, 12896, 13456>>, <<1, -1, 15825, 11939, 10519, 14504>> >>,
       << <<1, -2, 9150, 9041, 2643, 10696>>, <<1, -2, 9032, 1390, 9809, 12616>>, <<1, -1, 15749, 5105, 11215, 7168>> >>,
       << <<1, -2, 9722, 7558, 3832, 14440>>, <<1, -2, 9580, 7143, 12410, 11840>>, <<1, -1, 15668, 1591, 3963, 6392>> >>,
       << <<1, -2, 10294, 6075, 5022, 1784>>, <<1, -2, 10125, 14235, 9725, 2672>>, <<1, -1, 15582, 1801, 10378, 10240>> >>,
       << <<1, -2, 10294, 6075, 5022, 1792>>, <<1, -2, 10125, 14235, 9725, 2680>>, <<1, -1, 15582, 1801, 10378, 10232>> >>,
       << <<1, -2, 10866, 4592, 6211, 5536>>, <<1, -2, 10668, 3560, 25, 12000>>, <<1, -1, 15491, 6165, 16342, 9816>> >>,
       << <<1, -2, 11438, 3109, 7400, 9272>>, <<1, -2, 11207, 5178, 4417, 8104>>, <<1, -1, 15395, 15137, 2629, 10464>> >>,
       << <<1, -2, 12010, 1626, 8589, 13016>>, <<1, -2, 11743, 15, 14810, 6624>>, <<1, -1, 15295, 12807, 8183, 40>> >>,
       << <<1, -2, 12582, 143, 9779, 368>>, <<1, -2, 12275, 1783, 7346, 13320>>, <<1, -1, 15190, 16060, 13049, 6848>> >>,
       << <<1, -2, 12867, 15786, 2181, 10432>>, <<1, -2, 12539, 12627, 5589, 2840>>, <<1, -1, 15136, 13799, 9809, 10800>> >>,
       << <<1, -2, 13153, 15044, 10968, 4112>>, <<1, -2, 12803, 7825, 4895, 15704>>, <<1, -1, 15081, 9036, 1420, 13176>> >>,
       << <<1, -2, 13725, 13561, 12157, 7840>>, <<1, -2, 13327, 15504, 8387, 5760>>, <<1, -1, 14967, 8663, 8175, 15536>> >>,
       << <<1, -2, 13725, 13561, 12157, 7848>>, <<1, -2, 13327, 15504, 8387, 5760>>, <<1, -1, 14967, 8663, 8175, 15528>> >>,
       << <<1, -2, 13725, 13561, 12157, 7856>>, <<1, -2, 13327, 15504, 8387, 5768>>, <<1, -1, 14967, 8663, 8175, 15528>> >>,
       << <<1, -2, 13725, 13561, 12157, 7864>>, <<1, -2, 13327, 15504, 8387, 5776>>, <<1, -1, 14967, 8663, 8175, 15528>> >>,
       << <<1, -2, 14037, 12752, 14295, 9888>>, <<1, -2, 13612, 5228, 14562, 5544>>, <<1, -1, 14903, 6727, 7621, 8352>> >>,
       << <<1, -2, 14297, 12078, 13346, 11592>>, <<1, -2, 13848, 5819, 9971, 664>>, <<1, -1, 14848, 15512, 1466, 15160>> >>,
       << <<1, -2, 14869, 10595, 14535, 15336>>, <<1, -2, 14364, 8941, 6080, 11840>>, <<1, -1, 14725, 13789, 10951, 1616>> >>,
       << <<1, -2, 15441, 9112, 15725, 2688>>, <<1, -2, 14876, 5909, 10395, 12288>>, <<1, -1, 14598, 4110, 10149, 9064>> >>,
       << <<1, -2, 15441, 9112, 15725, 2696>>, <<1, -2, 14876, 5909, 10395, 12296>>, <<1, -1, 14598, 4110, 10149, 9064>> >>,
       << <<1, -2, 16013, 7630, 530, 6432>>, <<1, -2, 15383, 10554, 1162, 968>>, <<1, -1, 14466, 3495, 11684, 14400>> >>,
       << <<1, -1, 8292, 11265, 9051, 13280>>, <<1, -2, 15886, 3958, 15860, 1896>>, <<1, -1, 14329, 12603, 14951, 3632>> >>,
       << <<1, -1, 8578, 10524, 1454, 6944>>, <<1, -2, 16383, 16383, 16383, 16360>>, <<1, -1, 14188, 15732, 2825, 9560>> >>,
       << <<1, -1, 8578, 10524, 1454, 6952>>, <<1, -2, 16383, 16383, 16383, 16376>>, <<1, -1, 14188, 15732, 2825, 9560>> >>,
       << <<1, -1, 8578, 10524, 1454, 6960>>, <<1, -1, 8192, 0, 0, 0>>, <<1, -1, 14188, 15732, 2825, 9552>> >>,
       << <<1, -1, 8864, 9782, 10241, 632>>, <<1, -1, 8438, 6288, 8123, 14488>>, <<1, -1, 14043, 13583, 3805, 5872>> >>,
       << <<1, -1, 9150, 9041, 2643, 10696>>, <<1, -1, 8682, 3231, 5531, 10576>>, <<1, -1, 13894, 6881, 6581, 2600>> >>,
       << <<1, -1, 9358, 8501, 14991, 12056>>, <<1, -1, 8857, 14076, 5995, 88>>, <<1, -1, 13783, 1603, 11422, 1488>> >>,
       << <<1, -1, 9436, 8299, 11430, 4376>>, <<1, -1, 8923, 5995, 11790, 14568>>, <<1, -1, 13740, 12756, 5573, 16096>> >>,
       << <<1, -1, 9722, 7558, 3832, 14440>>, <<1, -1, 9161, 13378, 575, 10392>>, <<1, -1, 13582, 15590, 13597, 13600>> >>,
       << <<1, -1, 10008, 6816, 12619, 8112>>, <<1, -1, 9397, 7804, 3977, 3008>>, <<1, -1, 13420, 16172, 8880, 14904>> >>,
       << <<1, -1, 10294, 6075, 5022, 1784>>, <<1, -1, 9630, 4482, 3755, 4840>>, <<1, -1, 13254, 15309, 13054, 9536>> >>,
       << <<1, -1, 10294, 6075, 5022, 1792>>, <<1, -1, 9630, 4482, 3755, 4848>>, <<1, -1, 13254, 15309, 13054, 9536>> >>,
       << <<1, -1, 10580, 5333, 13808, 11856>>, <<1, -1, 9860, 2250, 2743, 13744>>, <<1, -1, 13084, 13831, 5199, 4256>> >>,
       << <<1, -1, 10866, 4592, 6211, 5536>>, <<1, -1, 10086, 16344, 14265, 2504>>, <<1, -1, 12910, 12585, 16012, 7816>> >>,
       << <<1, -1, 11029, 11190, 6551, 1920>>, <<1, -1, 10215, 4209, 4477, 11912>>, <<1, -1, 12809, 8634, 8379, 12888>> >>,
       << <<1, -1, 11152, 3850, 14997, 15592>>, <<1, -1, 10310, 12866, 2319, 5608>>, <<1, -1, 12732, 12442, 8884, 6464>> >>,
       << <<1, -1, 11438, 3109, 7400, 9272>>, <<1, -1, 10531, 7081, 1922, 12512>>, <<1, -1, 12550, 14289, 6634, 456>> >>,
       << <<1, -1, 11698, 2435, 6451, 10976>>, <<1, -1, 10729, 3903, 12011, 1080>>, <<1, -1, 12382, 3293, 10053, 1288>> >>,
       << <<1, -1, 11724, 2367, 16187, 2952>>, <<1, -1, 10748, 14272, 9993, 16032>>, <<1, -1, 12365, 2650, 5155, 8632>> >>,
       << <<1, -1, 12010, 1626, 8589, 13000>>, <<1, -1, 10963, 587, 7233, 7856>>, <<1, -1, 12175, 11220, 1655, 13848>> >>,
       << <<1, -1, 12010, 1626, 8589, 13016>>, <<1, -1, 10963, 587, 7233, 7872>>, <<1, -1, 12175, 11220, 1655, 13840>> >>,
       << <<1, -1, 12296, 885, 992, 6696>>, <<1, -1, 11173, 14108, 12691, 8536>>, <<1, -1, 11982, 8176, 6413, 3088>> >>,
       << <<1, -1, 12582, 143, 9779, 368>>, <<1, -1, 11381, 4632, 7182, 6272>>, <<1, -1, 11785, 10867, 5289, 10696>> >>,
       << <<1, -1, 12867, 15786, 2181, 10432>>, <<1, -1, 11585, 3891, 4071, 7776>>, <<1, -1, 11585, 3891, 4071, 7784>> >>,
       << <<1, -1, 13153, 15044, 10968, 4112>>, <<1, -1, 11785, 10867, 5289, 10688>>, <<1, -1, 11381, 4632, 7182, 6272>> >>,
       << <<1, -1, 13439, 14303, 3370, 14176>>, <<1, -1, 11982, 8176, 6413, 3088>>, <<1, -1, 11173, 14108, 12691, 8536>> >>,
       << <<1, -1, 13725, 13561, 12157, 7848>>, <<1, -1, 12175, 11220, 1655, 13832>>, <<1, -1, 10963, 587, 7233, 7872>> >>,
       << <<1, -1, 13725, 13561, 12157, 7856>>, <<1, -1, 12175, 11220, 1655, 13840>>, <<1, -1, 10963, 587, 7233, 7872>> >>,
       << <<1, -1, 13725, 13561, 12157, 7864>>, <<1, -1, 12175, 11220, 1655, 13848>>, <<1, -1, 10963, 587, 7233, 7864>> >>,
       << <<1, -1, 14011, 12820, 4560, 1528>>, <<1, -1, 12365, 2650, 5155, 8632>>, <<1, -1, 10748, 14272, 9993, 16032>> >>,
       << <<1, -1, 14297, 12078, 13346, 11592>>, <<1, -1, 12550, 14289, 6634, 456>>, <<1, -1, 10531, 7081, 1922, 12520>> >>,
       << <<1, -1, 14583, 11337, 5749, 5272>>, <<1, -1, 12732, 12442, 8884, 6464>>, <<1, -1, 10310, 12866, 2319, 5616>> >>,
       << <<1, -1, 14706, 3997, 14196, 2560>>, <<1, -1, 12809, 8634, 8379, 12888>>, <<1, -1, 10215, 4209, 4477, 11920>> >>,
       << <<1, -1, 14869, 10595, 14535, 15336>>, <<1, -1, 12910, 12585, 16012, 7824>>, <<1, -1, 10086, 16344, 14265, 2504>> >>,
       << <<1, -1, 15155, 9854, 6938, 9008>>, <<1, -1, 13084, 13831, 5199, 4256>>, <<1, -1, 9860, 2250, 2743, 13752>> >>,
       << <<1, -1, 15441, 9112, 15725, 2688>>, <<1, -1, 13254, 15309, 13054, 9536>>, <<1, -1, 9630, 4482, 3755, 4848>> >>,
       << <<1, -1, 15441, 9112, 15725, 2696>>, <<1, -1, 13254, 15309, 13054, 9536>>, <<1, -1, 9630, 4482, 3755, 4840>> >>,
       << <<1, -1, 15727, 8371, 8127, 12752>>, <<1, -1, 13420, 16172, 8880, 14904>>, <<1, -1, 9397, 7804, 3977, 3016>> >>,
       << <<1, -1, 16013, 7630, 530, 6432>>, <<1, -1, 13582, 15590, 13597, 13608>>, <<1, -1, 9161, 13378, 575, 10384>> >>,
       << <<1, -1, 16299, 6888, 9317, 112>>, <<1, -1, 13740, 12756, 5573, 16096>>, <<1, -1, 8923, 5995, 11790, 14568>> >>,
       << <<1, -1, 16377, 6686, 5755, 8808>>, <<1, -1, 13783, 1603, 11422, 1480>>, <<1, -1, 8857, 14076, 5995, 96>> >>,
       << <<1, -1, 16377, 6686, 5755, 8824>>, <<1, -1, 13783, 1603, 11422, 1496>>, <<1, -1, 8857, 14076, 5995, 80>> >>,
       << <<1, 0, 8292, 11265, 9051, 13280>>, <<1, -1, 13894, 6881, 6581, 2600>>, <<1, -1, 8682, 3231, 5531, 10576>> >>,
       << <<1, 0, 8435, 10894, 13445, 1928>>, <<1, -1, 14043, 13583, 3805, 5872>>, <<1, -1, 8438, 6288, 8123, 14488>> >>,
       << <<1, 0, 8578, 10524, 1454, 6952>>, <<1, -1, 14188, 15732, 2825, 9552>>, <<1, -1, 8192, 0, 0, 8>> >>,
       << <<1, 0, 8578, 10524, 1454, 6960>>, <<1, -1, 14188, 15732, 2825, 9560>>, <<1, -2, 16383, 16383, 16383, 16368>> >>,
       << <<1, 0, 8721, 10153, 5847, 11984>>, <<1, -1, 14329, 12603, 14951, 3632>>, <<1, -2, 15886, 3958, 15860, 1904>> >>,
       << <<1, 0, 8864, 9782, 10241, 632>>, <<1, -1, 14466, 3495, 11684, 14392>>, <<1, -2, 15383, 10554, 1162, 976>> >>,
       << <<1, 0, 9007, 9411, 14634, 5664>>, <<1, -1, 14598, 4110, 10149, 9056>>, <<1, -2, 14876, 5909, 10395, 12296>> >>,
       << <<1, 0, 9150, 9041, 2643, 10696>>, <<1, -1, 14725, 13789, 10951, 1616>>, <<1, -2, 14364, 8941, 6080, 11848>> >>,
       << <<1, 0, 9191, 6594, 10920, 9784>>, <<1, -1, 14761, 7764, 14699, 9088>>, <<1, -2, 14217, 8230, 11829, 7720>> >>,
       << <<1, 0, 9191, 6594, 10920, 9792>>, <<1, -1, 14761, 7764, 14699, 9096>>, <<1, -2, 14217, 8230, 11829, 7696>> >>,
       << <<1, 0, 9293, 8670, 7036, 15728>>, <<1, -1, 14848, 15512, 1466, 15160>>, <<1, -2, 13848, 5819, 9971, 664>> >>,
       << <<1, 0, 9358, 8501, 14991, 12056>>, <<1, -1, 14903, 6727, 7621, 8344>>, <<1, -2, 13612, 5228, 14562, 5552>> >>,
       << <<1, 0, 9436, 8299, 11430, 4376>>, <<1, -1, 14967, 8663, 8175, 15528>>, <<1, -2, 13327, 15504, 8387, 5768>> >>,
       << <<1, 0, 9579, 7928, 15823, 9408>>, <<1, -1, 15081, 9036, 1420, 13176>>, <<1, -2, 12803, 7825, 4895, 15696>> >>,
       << <<1, 0, 9650, 15935, 9828, 3728>>, <<1, -1, 15136, 13799, 9809, 10800>>, <<1, -2, 12539, 12627, 5589, 2848>> >>,
       << <<1, 0, 9722, 7558, 3832, 14440>>, <<1, -1, 15190, 16060, 13049, 6848>>, <<1, -2, 12275, 1783, 7346, 13312>> >>,
       << <<1, 0, 9865, 7187, 8226, 3080>>, <<1, -1, 15295, 12807, 8183, 40>>, <<1, -2, 11743, 15, 14810, 6640>> >>,
       << <<1, 0, 10008, 6816, 12619, 8112>>, <<1, -1, 15395, 15137, 2629, 10456>>, <<1, -2, 11207, 5178, 4417, 8120>> >>,
       << <<1, 0, 10151, 6446, 628, 13144>>, <<1, -1, 15491, 6165, 16342, 9808>>, <<1, -2, 10668, 3560, 25, 12008>> >>,
       << <<1, 0, 10294, 6075, 5022, 1792>>, <<1, -1, 15582, 1801, 10378, 10232>>, <<1, -2, 10125, 14235, 9725, 2688>> >>,
       << <<1, 0, 10437, 5704, 9415, 6824>>, <<1, -1, 15668, 1591, 3963, 6392>>, <<1, -2, 9580, 7143, 12410, 11840>> >>,
       << <<1, 0, 10528, 5468, 10721, 11512>>, <<1, -1, 15720, 5453, 14762, 696>>, <<1, -2, 9231, 13310, 11985, 11784>> >>,
       << <<1, 0, 10580, 5333, 13808, 11856>>, <<1, -1, 15749, 5105, 11215, 7168>>, <<1, -2, 9032, 1390, 9809, 12616>> >>,
       << <<1, 0, 10723, 4963, 1818, 496>>, <<1, -1, 15825, 11939, 10519, 14496>>, <<1, -2, 8480, 16096, 12896, 13472>> >>,
       << <<1, 0, 10723, 4963, 1818, 504>>, <<1, -1, 15825, 11939, 10519, 14504>>, <<1, -2, 8480, 16096, 12896, 13440>> >>,
       << <<1, 0, 10866, 4592, 6211, 5536>>, <<1, -1, 15897, 5327, 12087, 4392>>, <<1, -3, 15854, 9721, 7319, 2264>> >>,
       << <<1, 0, 11009, 4221, 10604, 10568>>, <<1, -1, 15964, 1296, 10704, 14456>>, <<1, -3, 14742, 6427, 6584, 13200>> >>,
       << <<1, 0, 11152, 3850, 14997, 15592>>, <<1, -1, 16025, 15897, 3904, 1016>>, <<1, -3, 13625, 11478, 2123, 2000>> >>,
       << <<1, 0, 11152, 3850, 14997, 15600>>, <<1, -1, 16025, 15897, 3904, 1024>>, <<1, -3, 13625, 11478, 2123, 1936>> >>,
       << <<1, 0, 11295, 3480, 3007, 4240>>, <<1, -1, 16082, 16052, 10006, 13840>>, <<1, -3, 12504, 14062, 11980, 4760>> >>,
       << <<1, 0, 11438, 3109, 7400, 9272>>, <<1, -1, 16135, 1478, 4131, 8376>>, <<1, -3, 11380, 3391, 366, 7264>> >>,
       << <<1, 0, 11581, 2738, 11793, 14296>>, <<1, -1, 16182, 4682, 1532, 8920>>, <<1, -3, 10252, 1459, 13578, 7160>> >>,
       << <<1, 0, 11581, 2738, 11793, 14304>>, <<1, -1, 16182, 4682, 1532, 8928>>, <<1, -3, 10252, 1459, 13578, 7096>> >>,
       << <<1, 0, 11724, 2367, 16187, 2952>>, <<1, -1, 16224, 9044, 9746, 9168>>, <<1, -3, 9120, 13899, 4531, 12496>> >>,
       << <<1, 0, 11867, 1997, 4196, 7984>>, <<1, -1, 16261, 14354, 13383, 13400>>, <<1, -4, 15973, 10790, 2540, 5792>> >>,
       << <<1, 0, 12010, 1626, 8589, 13008>>, <<1, -1, 16294, 4042, 7948, 15920>>, <<1, -4, 13700, 12365, 10122, 15320>> >>,
       << <<1, 0, 12010, 1626, 8589, 13016>>, <<1, -1, 16294, 4042, 7948, 15920>>, <<1, -4, 13700, 12365, 10122, 15192>> >>,
       << <<1, 0, 12153, 1255, 12983, 1664>>, <<1, -1, 16321, 10714, 770, 11536>>, <<1, -4, 11423, 11100, 6224, 2048>> >>,
       << <<1, 0, 12296, 885, 992, 6696>>, <<1, -1, 16344, 1464, 11807, 16304>>, <<1, -4, 9143, 1974, 11594, 2328>> >>,
       << <<1, 0, 12439, 514, 5385, 11720>>, <<1, -1, 16361, 8950, 8796, 12520>>, <<1, -5, 13719, 9124, 7673, 2312>> >>,
       << <<1, 0, 12582, 143, 9779, 368>>, <<1, -1, 16374, 316, 6112, 11064>>, <<1, -5, 9148, 11364, 16123, 8632>> >>,
       << <<1, 0, 12724, 16156, 14172, 5400>>, <<1, -1, 16381, 8267, 16053, 15440>>, <<1, -6, 9150, 1429, 12603, 10680>> >>,
       << <<1, 0, 12867, 15786, 2181, 10432>>, <<1, 0, 8192, 0, 0, 0>>, <<1, -54, 9036, 4889, 8843, 8248>> >>,
       << <<1, 0, 13010, 15415, 6574, 15464>>, <<1, -1, 16381, 8267, 16053, 15440>>, <<-1, -6, 9150, 1429, 12603, 10400>> >>,
       << <<1, 0, 13153, 15044, 10968, 4112>>, <<1, -1, 16374, 316, 6112, 11064>>, <<-1, -5, 9148, 11364, 16123, 8488>> >>,
       << <<1, 0, 13296, 14673, 15361, 9144>>, <<1, -1, 16361, 8950, 8796, 12520>>, <<-1, -5, 13719, 9124, 7673, 2168>> >>,
       << <<1, 0, 13439, 14303, 3370, 14176>>, <<1, -1, 16344, 1464, 11807, 16304>>, <<-1, -4, 9143, 1974, 11594, 2384>> >>,
       << <<1, 0, 13582, 13932, 7764, 2824>>, <<1, -1, 16321, 10714, 770, 11536>>, <<-1, -4, 11423, 11100, 6224, 2104>> >>,
       << <<1, 0, 13725, 13561, 12157, 7848>>, <<1, -1, 16294, 4042, 7948, 15928>>, <<-1, -4, 13700, 12365, 10122, 15120>> >>,
       << <<1, 0, 13725, 13561, 12157, 7856>>, <<1, -1, 16294, 4042, 7948, 15920>>, <<-1, -4, 13700, 12365, 10122, 15248>> >>,
       << <<1, 0, 13868, 13191, 166, 12880>>, <<1, -1, 16261, 14354, 13383, 13408>>, <<-1, -4, 15973, 10790, 2540, 5720>> >>,
       << <<1, 0, 14011, 12820, 4560, 1528>>, <<1, -1, 16224, 9044, 9746, 9168>>, <<-1, -3, 9120, 13899, 4531, 12464>> >>,
       << <<1, 0, 14037, 12752, 14295, 9888>>, <<1, -1, 16217, 3842, 1800, 6016>>, <<-1, -3, 9326, 12210, 488, 9904>> >>,
       << <<1, 0, 14154, 12449, 8953, 6560>>, <<1, -1, 16182, 4682, 1532, 8928>>, <<-1, -3, 10252, 1459, 13578, 7064>> >>,
       << <<1, 0, 14297, 12078, 13346, 11592>>, <<1, -1, 16135, 1478, 4131, 8376>>, <<-1, -3, 11380, 3391, 366, 7232>> >>,
       << <<1, 0, 14440, 11708, 1356, 240>>, <<1, -1, 16082, 16052, 10006, 13840>>, <<-1, -3, 12504, 14062, 11980, 4728>> >>,
       << <<1, 0, 14583, 11337, 5749, 5272>>, <<1, -1, 16025, 15897, 3904, 1024>>, <<-1, -3, 13625, 11478, 2123, 1968>> >>,
       << <<1, 0, 14706, 3997, 14196, 2560>>, <<1, -1, 15973, 3586, 11037, 2888>>, <<-1, -3, 14583, 2161, 8264, 11264>> >>,
       << <<1, 0, 14726, 10966, 10142, 10304>>, <<1, -1, 15964, 1296, 10704, 14456>>, <<-1, -3, 14742, 6427, 6584, 13232>> >>,
       << <<1, 0, 14869, 10595, 14535, 15336>>, <<1, -1, 15897, 5327, 12087, 4392>>, <<-1, -3, 15854, 9721, 7319, 2296>> >>,
       << <<1, 0, 15012, 10225, 2545, 3984>>, <<1, -1, 15825, 11939, 10519, 14504>>, <<-1, -2, 8480, 16096, 12896, 13456>> >>,
       << <<1, 0, 15155, 9854, 6938, 9008>>, <<1, -1, 15749, 5105, 11215, 7168>>, <<-1, -2, 9032, 1390, 9809, 12600>> >>,
       << <<1, 0, 15298, 9483, 11331, 14040>>, <<1, -1, 15668, 1591, 3963, 6400>>, <<-1, -2, 9580, 7143, 12410, 11824>> >>,
       << <<1, 0, 15441, 9112, 15725, 2688>>, <<1, -1, 15582, 1801, 10378, 10240>>, <<-1, -2, 10125, 14235, 9725, 2672>> >>,
       << <<1, 0, 15584, 8742, 3734, 7720>>, <<1, -1, 15491, 6165, 16342, 9816>>, <<-1, -2, 10668, 3560, 25, 11992>> >>,
       << <<1, 0, 15727, 8371, 8127, 12752>>, <<1, -1, 15395, 15137, 2629, 10464>>, <<-1, -2, 11207, 5178, 4417, 8104>> >>,
       << <<1, 0, 15870, 8000, 12521, 1400>>, <<1, -1, 15295, 12807, 8183, 40>>, <<-1, -2, 11743, 15, 14810, 6624>> >>,
       << <<1, 0, 16013, 7630, 530, 6432>>, <<1, -1, 15190, 16060, 13049, 6848>>, <<-1, -2, 12275, 1783, 7346, 13328>> >>,
       << <<1, 0, 16156, 7259, 4923, 11464>>, <<1, -1, 15081, 9036, 1420, 13168>>, <<-1, -2, 12803, 7825, 4895, 15704>> >>,
       << <<1, 0, 16299, 6888, 9317, 112>>, <<1, -1, 14967, 8663, 8175, 15528>>, <<-1, -2, 13327, 15504, 8387, 5776>> >>,
       << <<1, 1, 8221, 3258, 15047, 2568>>, <<1, -1, 14848, 15512, 1466, 15168>>, <<-1, -2, 13848, 5819, 9971, 648>> >>,
       << <<1, 1, 8292, 11265, 9051, 13280>>, <<1, -1, 14725, 13789, 10951, 1608>>, <<-1, -2, 14364, 8941, 6080, 11856>> >>,
       << <<1, 1, 8364, 2888, 3056, 7600>>, <<1, -1, 14598, 4110, 10149, 9064>>, <<-1, -2, 14876, 5909, 10395, 12280>> >>,
       << <<1, 1, 8435, 10894, 13445, 1928>>, <<1, -1, 14466, 3495, 11684, 14392>>, <<-1, -2, 15383, 10554, 1162, 984>> >>,
       << <<1, 1, 8507, 2517, 7449, 12632>>, <<1, -1, 14329, 12603, 14951, 3640>>, <<-1, -2, 15886, 3958, 15860, 1888>> >>,
       << <<1, 1, 8578, 10524, 1454, 6952>>, <<1, -1, 14188, 15732, 2825, 9560>>, <<-1, -2, 16383, 16383, 16383, 16352>> >>,
       << <<1, 1, 8650, 2146, 11843, 1280>>, <<1, -1, 14043, 13583, 3805, 5872>>, <<-1, -1, 8438, 6288, 8123, 14496>> >>,
       << <<1, 1, 8721, 10153, 5847, 11984>>, <<1, -1, 13894, 6881, 6581, 2608>>, <<-1, -1, 8682, 3231, 5531, 10568>> >>,
       << <<1, 1, 8793, 1775, 16236, 6312>>, <<1, -1, 13740, 12756, 5573, 16088>>, <<-1, -1, 8923, 5995, 11790, 14568>> >>,
       << <<1, 1, 8864, 9782, 10241, 632>>, <<1, -1, 13582, 15590, 13597, 13608>>, <<-1, -1, 9161, 13378, 575, 10376>> >>,
       << <<1, 1, 8936, 1405, 4245, 11344>>, <<1, -1, 13420, 16172, 8880, 14896>>, <<-1, -1, 9397, 7804, 3977, 3016>> >>,
       << <<1, 1, 9007, 9411, 14634, 5664>>, <<1, -1, 13254, 15309, 13054, 9536>>, <<-1, -1, 9630, 4482, 3755, 4840>> >>,
       << <<1, 1, 9079, 1034, 8638, 16376>>, <<1, -1, 13084, 13831, 5199, 4248>>, <<-1, -1, 9860, 2250, 2743, 13752>> >>,
       << <<1, 1, 9150, 9041, 2643, 10696>>, <<1, -1, 12910, 12585, 16012, 7824>>, <<-1, -1, 10086, 16344, 14265, 2504>> >>,
       << <<1, 1, 9222, 663, 13032, 5016>>, <<1, -1, 12732, 12442, 8884, 6472>>, <<-1, -1, 10310, 12866, 2319, 5600>> >>,
       << <<1, 1, 9293, 8670, 7036, 15728>>, <<1, -1, 12550, 14289, 6634, 456>>, <<-1, -1, 10531, 7081, 1922, 12520>> >>,
       << <<1, 1, 9358, 8501, 14991, 12056>>, <<1, -1, 12382, 3293, 10053, 1288>>, <<-1, -1, 10729, 3903, 12011, 1072>> >>,
       << <<1, 1, 9365, 293, 1041, 10048>>, <<1, -1, 12365, 2650, 5155, 8640>>, <<-1, -1, 10748, 14272, 9993, 16024>> >>,
       << <<1, 1, 9436, 8299, 11430, 4368>>, <<1, -1, 12175, 11220, 1655, 13856>>, <<-1, -1, 10963, 587, 7233, 7848>> >>,
       << <<1, 1, 9436, 8299, 11430, 4376>>, <<1, -1, 12175, 11220, 1655, 13840>>, <<-1, -1, 10963, 587, 7233, 7872>> >>,
       << <<1, 1, 9507, 16306, 5434, 15080>>, <<1, -1, 11982, 8176, 6413, 3096>>, <<-1, -1, 11173, 14108, 12691, 8528>> >>,
       << <<1, 1, 9579, 7928, 15823, 9408>>, <<1, -1, 11785, 10867, 5289, 10688>>, <<-1, -1, 11381, 4632, 7182, 6280>> >>,
       << <<1, 1, 9650, 15935, 9828, 3728>>, <<1, -1, 11585, 3891, 4071, 7784>>, <<-1, -1, 11585, 3891, 4071, 7776>> >>,
       << <<1, 1, 9722, 7558, 3832, 14440>>, <<1, -1, 11381, 4632, 7182, 6264>>, <<-1, -1, 11785, 10867, 5289, 10696>> >>,
       << <<1, 1, 9793, 15564, 14221, 8760>>, <<1, -1, 11173, 14108, 12691, 8544>>, <<-1, -1, 11982, 8176, 6413, 3088>> >>,
       << <<1, 1, 9865, 7187, 8226, 3080>>, <<1, -1, 10963, 587, 7233, 7880>>, <<-1, -1, 12175, 11220, 1655, 13824>> >>,
       << <<1, 1, 9936, 15194, 2230, 13792>>, <<1, -1, 10748, 14272, 9993, 16032>>, <<-1, -1, 12365, 2650, 5155, 8632>> >>,
       << <<1, 1, 10008, 6816, 12619, 8112>>, <<1, -1, 10531, 7081, 1922, 12528>>, <<-1, -1, 12550, 14289, 6634, 448>> >>,
       << <<1, 1, 10079, 14823, 6624, 2440>>, <<1, -1, 10310, 12866, 2319, 5608>>, <<-1, -1, 12732, 12442, 8884, 6464>> >>,
       << <<1, 1, 10151, 6446, 628, 13144>>, <<1, -1, 10086, 16344, 14265, 2512>>, <<-1, -1, 12910, 12585, 16012, 7816>> >>,
       << <<1, 1, 10222, 14452, 11017, 7472>>, <<1, -1, 9860, 2250, 2743, 13736>>, <<-1, -1, 13084, 13831, 5199, 4264>> >>,
       << <<1, 1, 10294, 6075, 5022, 1792>>, <<1, -1, 9630, 4482, 3755, 4856>>, <<-1, -1, 13254, 15309, 13054, 9528>> >>,
       << <<1, 1, 10365, 14081, 15410, 12504>>, <<1, -1, 9397, 7804, 3977, 3000>>, <<-1, -1, 13420, 16172, 8880, 14912>> >>,
       << <<1, 1, 10437, 5704, 9415, 6824>>, <<1, -1, 9161, 13378, 575, 10392>>, <<-1, -1, 13582, 15590, 13597, 13600>> >>,
       << <<1, 1, 10508, 13711, 3420, 1144>>, <<1, -1, 8923, 5995, 11790, 14584>>, <<-1, -1, 13740, 12756, 5573, 16088>> >>,
       << <<1, 1, 10580, 5333, 13808, 11856>>, <<1, -1, 8682, 3231, 5531, 10576>>, <<-1, -1, 13894, 6881, 6581, 2600>> >>,
       << <<1, 1, 10651, 13340, 7813, 6176>>, <<1, -1, 8438, 6288, 8123, 14504>>, <<-1, -1, 14043, 13583, 3805, 5864>> >>,
       << <<1, 1, 10723, 4963, 1818, 496>>, <<1, -1, 8192, 0, 0, 24>>, <<-1, -1, 14188, 15732, 2825, 9544>> >>,
       << <<1, 1, 10723, 4963, 1818, 504>>, <<1, -2, 16383, 16383, 16383, 16376>>, <<-1, -1, 14188, 15732, 2825, 9560>> >>,
       << <<1, 1, 10794, 12969, 12206, 11208>>, <<1, -2, 15886, 3958, 15860, 1912>>, <<-1, -1, 14329, 12603, 14951, 3632>> >>,
       << <<1, 1, 10866, 4592, 6211, 5536>>, <<1, -2, 15383, 10554, 1162, 952>>, <<-1, -1, 14466, 3495, 11684, 14400>> >>,
       << <<1, 1, 10937, 12599, 215, 16240>>, <<1, -2, 14876, 5909, 10395, 12304>>, <<-1, -1, 14598, 4110, 10149, 9056>> >>,
       << <<1, 1, 11009, 4221, 10604, 10568>>, <<1, -2, 14364, 8941, 6080, 11824>>, <<-1, -1, 14725, 13789, 10951, 1616>> >>,
       << <<1, 1, 11029, 11190, 6551, 1920>>, <<1, -2, 14217, 8230, 11829, 7704>>, <<-1, -1, 14761, 7764, 14699, 9088>> >>,
       << <<1, 1, 11080, 12228, 4609, 4888>>, <<1, -2, 13848, 5819, 9971, 672>>, <<-1, -1, 14848, 15512, 1466, 15160>> >>,
       << <<1, 1, 11152, 3850, 14997, 15592>>, <<1, -2, 13327, 15504, 8387, 5800>>, <<-1, -1, 14967, 8663, 8175, 15520>> >>,
       << <<1, 1, 11152, 3850, 14997, 15600>>, <<1, -2, 13327, 15504, 8387, 5744>>, <<-1, -1, 14967, 8663, 8175, 15536>> >>,
       << <<1, 1, 11223, 11857, 9002, 9920>>, <<1, -2, 12803, 7825, 4895, 15704>>, <<-1, -1, 15081, 9036, 1420, 13176>> >>,
       << <<1, 1, 11295, 3480, 3007, 4240>>, <<1, -2, 12275, 1783, 7346, 13352>>, <<-1, -1, 15190, 16060, 13049, 6840>> >>,
       << <<1, 1, 11366, 11486, 13395, 14952>>, <<1, -2, 11743, 15, 14810, 6616>>, <<-1, -1, 15295, 12807, 8183, 40>> >>,
       << <<1, 1, 11438, 3109, 7400, 9272>>, <<1, -2, 11207, 5178, 4417, 8128>>, <<-1, -1, 15395, 15137, 2629, 10456>> >>,
       << <<1, 1, 11509, 11116, 1405, 3600>>, <<1, -2, 10668, 3560, 25, 11984>>, <<-1, -1, 15491, 6165, 16342, 9816>> >>,
       << <<1, 1, 11581, 2738, 11793, 14304>>, <<1, -2, 10125, 14235, 9725, 2696>>, <<-1, -1, 15582, 1801, 10378, 10232>> >>,
       << <<1, 1, 11652, 10745, 5798, 8632>>, <<1, -2, 9580, 7143, 12410, 11816>>, <<-1, -1, 15668, 1591, 3963, 6400>> >>,
       << <<1, 1, 11698, 2435, 6451, 10976>>, <<1, -2, 9231, 13310, 11985, 11768>>, <<-1, -1, 15720, 5453, 14762, 696>> >>,
       << <<1, 1, 11724, 2367, 16187, 2952>>, <<1, -2, 9032, 1390, 9809, 12624>>, <<-1, -1, 15749, 5105, 11215, 7168>> >>,
       << <<1, 1, 11795, 10374, 10191, 13656>>, <<1, -2, 8480, 16096, 12896, 13480>>, <<-1, -1, 15825, 11939, 10519, 14496>> >>,
       << <<1, 1, 11867, 1997, 4196, 7984>>, <<1, -3, 15854, 9721, 7319, 2280>>, <<-1, -1, 15897, 5327, 12087, 4392>> >>,
       << <<1, 1, 11938, 10003, 14585, 2304>>, <<1, -3, 14742, 6427, 6584, 13280>>, <<-1, -1, 15964, 1296, 10704, 14448>> >>,
       << <<1, 1, 12010, 1626, 8589, 13008>>, <<1, -3, 13625, 11478, 2123, 2080>>, <<-1, -1, 16025, 15897, 3904, 1016>> >>,
       << <<1, 1, 12010, 1626, 8589, 13016>>, <<1, -3, 13625, 11478, 2123, 1960>>, <<-1, -1, 16025, 15897, 3904, 1024>> >>,
       << <<1, 1, 12081, 9633, 2594, 7336>>, <<1, -3, 12504, 14062, 11980, 4776>>, <<-1, -1, 16082, 16052, 10006, 13840>> >>,
       << <<1, 1, 12153, 1255, 12983, 1664>>, <<1, -3, 11380, 3391, 366, 7224>>, <<-1, -1, 16135, 1478, 4131, 8376>> >>,
       << <<1, 1, 12224, 9262, 6987, 12368>>, <<1, -3, 10252, 1459, 13578, 7112>>, <<-1, -1, 16182, 4682, 1532, 8920>> >>,
       << <<1, 1, 12296, 885, 992, 6696>>, <<1, -3, 9120, 13899, 4531, 12456>>, <<-1, -1, 16224, 9044, 9746, 9168>> >>,
       << <<1, 1, 12367, 8891, 11381, 1016>>, <<1, -4, 15973, 10790, 2540, 5824>>, <<-1, -1, 16261, 14354, 13383, 13400>> >>,
       << <<1, 1, 12439, 514, 5385, 11720>>, <<1, -4, 13700, 12365, 10122, 15352>>, <<-1, -1, 16294, 4042, 7948, 15920>> >>,
       << <<1, 1, 12510, 8520, 15774, 6048>>, <<1, -4, 11423, 11100, 6224, 2080>>, <<-1, -1, 16321, 10714, 770, 11536>> >>,
       << <<1, 1, 12582, 143, 9779, 368>>, <<1, -4, 9143, 1974, 11594, 2496>>, <<-1, -1, 16344, 1464, 11807, 16304>> >>,
       << <<1, 1, 12653, 8150, 3783, 11080>>, <<1, -5, 13719, 9124, 7673, 2128>>, <<-1, -1, 16361, 8950, 8796, 12520>> >>,
       << <<1, 1, 12724, 16156, 14172, 5400>>, <<1, -5, 9148, 11364, 16123, 8704>>, <<-1, -1, 16374, 316, 6112, 11064>> >>,
       << <<1, 1, 12796, 7779, 8176, 16112>>, <<1, -6, 9150, 1429, 12603, 10312>>, <<-1, -1, 16381, 8267, 16053, 15440>> >>,
       << <<1, 1, 12867, 15786, 2181, 10424>>, <<1, -51, 10451, 1222, 6306, 14352>>, <<-1, 0, 8192, 0, 0, 0>> >>,
       << <<1, 1, 12867, 15786, 2181, 10432>>, <<1, -53, 9036, 4889, 8843, 8248>>, <<-1, 0, 8192, 0, 0, 0>> >>,
       << <<1, 1, 12939, 7408, 12570, 4760>>, <<-1, -6, 9150, 1429, 12603, 10768>>, <<-1, -1, 16381, 8267, 16053, 15440>> >>,
       << <<1, 1, 13010, 15415, 6574, 15464>>, <<-1, -5, 9148, 11364, 16123, 8424>>, <<-1, -1, 16374, 316, 6112, 11064>> >>,
       << <<1, 1, 13082, 7038, 579, 9784>>, <<-1, -5, 13719, 9124, 7673, 1848>>, <<-1, -1, 16361, 8950, 8796, 12520>> >>,
       << <<1, 1, 13153, 15044, 10968, 4112>>, <<-1, -4, 9143, 1974, 11594, 2352>>, <<-1, -1, 16344, 1464, 11807, 16304>> >>,
       << <<1, 1, 13225, 6667, 4972, 14816>>, <<-1, -4, 11423, 11100, 6224, 1936>>, <<-1, -1, 16321, 10714, 770, 11536>> >>,
       << <<1, 1, 13296, 14673, 15361, 9144>>, <<-1, -4, 13700, 12365, 10122, 15216>>, <<-1, -1, 16294, 4042, 7948, 15920>> >>,
       << <<1, 1, 13368, 6296, 9366, 3464>>, <<-1, -4, 15973, 10790, 2540, 5688>>, <<-1, -1, 16261, 14354, 13383, 13408>> >>,
       << <<1, 1, 13439, 14303, 3370, 14176>>, <<-1, -3, 9120, 13899, 4531, 12512>>, <<-1, -1, 16224, 9044, 9746, 9160>> >>,
       << <<1, 1, 13511, 5925, 13759, 8496>>, <<-1, -3, 10252, 1459, 13578, 7040>>, <<-1, -1, 16182, 4682, 1532, 8928>> >>,
       << <<1, 1, 13582, 13932, 7764, 2824>>, <<-1, -3, 11380, 3391, 366, 7280>>, <<-1, -1, 16135, 1478, 4131, 8376>> >>,
       << <<1, 1, 13654, 5555, 1768, 13528>>, <<-1, -3, 12504, 14062, 11980, 4704>>, <<-1, -1, 16082, 16052, 10006, 13840>> >>,
       << <<1, 1, 13725, 13561, 12157, 7848>>, <<-1, -3, 13625, 11478, 2123, 1888>>, <<-1, -1, 16025, 15897, 3904, 1024>> >>,
       << <<1, 1, 13725, 13561, 12157, 7856>>, <<-1, -3, 13625, 11478, 2123, 2016>>, <<-1, -1, 16025, 15897, 3904, 1016>> >>,
       << <<1, 1, 13797, 5184, 6162, 2176>>, <<-1, -3, 14742, 6427, 6584, 13216>>, <<-1, -1, 15964, 1296, 10704, 14456>> >>,
       << <<1, 1, 13868, 13191, 166, 12880>>, <<-1, -3, 15854, 9721, 7319, 2216>>, <<-1, -1, 15897, 5327, 12087, 4392>> >>,
       << <<1, 1, 13940, 4813, 10555, 7208>>, <<-1, -2, 8480, 16096, 12896, 13448>>, <<-1, -1, 15825, 11939, 10519, 14504>> >>,
       << <<1, 1, 14011, 12820, 4560, 1528>>, <<-1, -2, 9032, 1390, 9809, 12592>>, <<-1, -1, 15749, 5105, 11215, 7168>> >>,
       << <<1, 1, 14037, 12752, 14295, 9888>>, <<-1, -2, 9231, 13310, 11985, 11728>>, <<-1, -1, 15720, 5453, 14762, 704>> >>,
       << <<1, 1, 14083, 4442, 14948, 12240>>, <<-1, -2, 9580, 7143, 12410, 11840>>, <<-1, -1, 15668, 1591, 3963, 6392>> >>,
       << <<1, 1, 14154, 12449, 8953, 6552>>, <<-1, -2, 10125, 14235, 9725, 2608>>, <<-1, -1, 15582, 1801, 10378, 10248>> >>,
       << <<1, 1, 14154, 12449, 8953, 6560>>, <<-1, -2, 10125, 14235, 9725, 2664>>, <<-1, -1, 15582, 1801, 10378, 10240>> >>,
       << <<1, 1, 14226, 4072, 2958, 888>>, <<-1, -2, 10668, 3560, 25, 12008>>, <<-1, -1, 15491, 6165, 16342, 9808>> >>,
       << <<1, 1, 14297, 12078, 13346, 11592>>, <<-1, -2, 11207, 5178, 4417, 8096>>, <<-1, -1, 15395, 15137, 2629, 10464>> >>,
       << <<1, 1, 14369, 3701, 7351, 5920>>, <<-1, -2, 11743, 15, 14810, 6648>>, <<-1, -1, 15295, 12807, 8183, 40>> >>,
       << <<1, 1, 14440, 11708, 1356, 240>>, <<-1, -2, 12275, 1783, 7346, 13320>>, <<-1, -1, 15190, 16060, 13049, 6848>> >>,
       << <<1, 1, 14512, 3330, 11744, 10944>>, <<-1, -2, 12803, 7825, 4895, 15672>>, <<-1, -1, 15081, 9036, 1420, 13176>> >>,
       << <<1, 1, 14583, 11337, 5749, 5264>>, <<-1, -2, 13327, 15504, 8387, 5712>>, <<-1, -1, 14967, 8663, 8175, 15544>> >>,
       << <<1, 1, 14583, 11337, 5749, 5272>>, <<-1, -2, 13327, 15504, 8387, 5768>>, <<-1, -1, 14967, 8663, 8175, 15528>> >>,
       << <<1, 1, 14655, 2959, 16137, 15976>>, <<-1, -2, 13848, 5819, 9971, 640>>, <<-1, -1, 14848, 15512, 1466, 15168>> >>,
       << <<1, 1, 14706, 3997, 14196, 2560>>, <<-1, -2, 14217, 8230, 11829, 7672>>, <<-1, -1, 14761, 7764, 14699, 9096>> >>,
       << <<1, 1, 14726, 10966, 10142, 10304>>, <<-1, -2, 14364, 8941, 6080, 11848>>, <<-1, -1, 14725, 13789, 10951, 1608>> >>,
       << <<1, 1, 14798, 2589, 4147, 4624>>, <<-1, -2, 14876, 5909, 10395, 12280>>, <<-1, -1, 14598, 4110, 10149, 9064>> >>,
       << <<1, 1, 14869, 10595, 14535, 15336>>, <<-1, -2, 15383, 10554, 1162, 976>>, <<-1, -1, 14466, 3495, 11684, 14392>> >>,
       << <<1, 1, 14941, 2218, 8540, 9656>>, <<-1, -2, 15886, 3958, 15860, 1880>>, <<-1, -1, 14329, 12603, 14951, 3640>> >>,
       << <<1, 1, 15012, 10225, 2545, 3976>>, <<-1, -2, 16383, 16383, 16383, 16344>>, <<-1, -1, 14188, 15732, 2825, 9568>> >>,
       << <<1, 1, 15012, 10225, 2545, 3984>>, <<-1, -1, 8192, 0, 0, 8>>, <<-1, -1, 14188, 15732, 2825, 9552>> >>,
       << <<1, 1, 15084, 1847, 12933, 14688>>, <<-1, -1, 8438, 6288, 8123, 14488>>, <<-1, -1, 14043, 13583, 3805, 5872>> >>,
       << <<1, 1, 15155, 9854, 6938, 9008>>, <<-1, -1, 8682, 3231, 5531, 10568>>, <<-1, -1, 13894, 6881, 6581, 2608>> >>,
       << <<1, 1, 15227, 1477, 943, 3336>>, <<-1, -1, 8923, 5995, 11790, 14568>>, <<-1, -1, 13740, 12756, 5573, 16096>> >>,
       << <<1, 1, 15298, 9483, 11331, 14040>>, <<-1, -1, 9161, 13378, 575, 10376>>, <<-1, -1, 13582, 15590, 13597, 13616>> >>,
       << <<1, 1, 15370, 1106, 5336, 8368>>, <<-1, -1, 9397, 7804, 3977, 3016>>, <<-1, -1, 13420, 16172, 8880, 14904>> >>,
       << <<1, 1, 15441, 9112, 15725, 2688>>, <<-1, -1, 9630, 4482, 3755, 4840>>, <<-1, -1, 13254, 15309, 13054, 9544>> >>,
       << <<1, 1, 15513, 735, 9729, 13400>>, <<-1, -1, 9860, 2250, 2743, 13752>>, <<-1, -1, 13084, 13831, 5199, 4256>> >>,
       << <<1, 1, 15584, 8742, 3734, 7720>>, <<-1, -1, 10086, 16344, 14265, 2496>>, <<-1, -1, 12910, 12585, 16012, 7824>> >>,
       << <<1, 1, 15656, 364, 14123, 2048>>, <<-1, -1, 10310, 12866, 2319, 5624>>, <<-1, -1, 12732, 12442, 8884, 6456>> >>,
       << <<1, 1, 15727, 8371, 8127, 12752>>, <<-1, -1, 10531, 7081, 1922, 12512>>, <<-1, -1, 12550, 14289, 6634, 456>> >>,
       << <<1, 1, 15798, 16378, 2132, 7072>>, <<-1, -1, 10748, 14272, 9993, 16016>>, <<-1, -1, 12365, 2650, 5155, 8640>> >>,
       << <<1, 1, 15870, 8000, 12521, 1400>>, <<-1, -1, 10963, 587, 7233, 7872>>, <<-1, -1, 12175, 11220, 1655, 13840>> >>,
       << <<1, 1, 15941, 16007, 6525, 12104>>, <<-1, -1, 11173, 14108, 12691, 8528>>, <<-1, -1, 11982, 8176, 6413, 3096>> >>,
       << <<1, 1, 16013, 7630, 530, 6432>>, <<-1, -1, 11381, 4632, 7182, 6280>>, <<-1, -1, 11785, 10867, 5289, 10688>> >>,
       << <<1, 1, 16084, 15636, 10919, 752>>, <<-1, -1, 11585, 3891, 4071, 7776>>, <<-1, -1, 11585, 3891, 4071, 7792>> >>,
       << <<1, 1, 16156, 7259, 4923, 11464>>, <<-1, -1, 11785, 10867, 5289, 10696>>, <<-1, -1, 11381, 4632, 7182, 6272>> >>,
       << <<1, 1, 16227, 15265, 15312, 5784>>, <<-1, -1, 11982, 8176, 6413, 3088>>, <<-1, -1, 11173, 14108, 12691, 8544>> >>,
       << <<1, 1, 16299, 6888, 9317, 104>>, <<-1, -1, 12175, 11220, 1655, 13824>>, <<-1, -1, 10963, 587, 7233, 7888>> >>,
       << <<1, 1, 16299, 6888, 9317, 112>>, <<-1, -1, 12175, 11220, 1655, 13848>>, <<-1, -1, 10963, 587, 7233, 7864>> >>,
       << <<1, 1, 16370, 14895, 3321, 10816>>, <<-1, -1, 12365, 2650, 5155, 8632>>, <<-1, -1, 10748, 14272, 9993, 16032>> >>,
       << <<1, 1, 16377, 6686, 5755, 8808>>, <<-1, -1, 12382, 3293, 10053, 1280>>, <<-1, -1, 10729, 3903, 12011, 1088>> >>,
       << <<1, 2, 8221, 3258, 15047, 2568>>, <<-1, -1, 12550, 14289, 6634, 448>>, <<-1, -1, 10531, 7081, 1922, 12528>> >>,
       << <<1, 2, 8256, 15454, 3857, 7920>>, <<-1, -1, 12732, 12442, 8884, 6440>>, <<-1, -1, 10310, 12866, 2319, 5640>> >>,
       << <<1, 2, 8292, 11265, 9051, 13280>>, <<-1, -1, 12910, 12585, 16012, 7832>>, <<-1, -1, 10086, 16344, 14265, 2488>> >>,
       << <<1, 2, 8328, 7076, 14246, 2248>>, <<-1, -1, 13084, 13831, 5199, 4256>>, <<-1, -1, 9860, 2250, 2743, 13744>> >>,
       << <<1, 2, 8364, 2888, 3056, 7600>>, <<-1, -1, 13254, 15309, 13054, 9528>>, <<-1, -1, 9630, 4482, 3755, 4856>> >>,
       << <<1, 2, 8399, 15083, 8250, 12952>>, <<-1, -1, 13420, 16172, 8880, 14888>>, <<-1, -1, 9397, 7804, 3977, 3032>> >>,
       << <<1, 2, 8435, 10894, 13445, 1928>>, <<-1, -1, 13582, 15590, 13597, 13616>>, <<-1, -1, 9161, 13378, 575, 10368>> >>,
       << <<1, 2, 8471, 6706, 2255, 7280>>, <<-1, -1, 13740, 12756, 5573, 16096>>, <<-1, -1, 8923, 5995, 11790, 14560>> >>,
       << <<1, 2, 8507, 2517, 7449, 12632>>, <<-1, -1, 13894, 6881, 6581, 2600>>, <<-1, -1, 8682, 3231, 5531, 10584>> >>,
       << <<1, 2, 8542, 14712, 12644, 1600>>, <<-1, -1, 14043, 13583, 3805, 5856>>, <<-1, -1, 8438, 6288, 8123, 14512>> >>,
       << <<1, 2, 8578, 10524, 1454, 6952>>, <<-1, -1, 14188, 15732, 2825, 9536>>, <<-1, -1, 8192, 0, 0, 32>> >>,
       << <<1, 2, 8614, 6335, 6648, 12312>>, <<-1, -1, 14329, 12603, 14951, 3648>>, <<-1, -2, 15886, 3958, 15860, 1864>> >>,
       << <<1, 2, 8650, 2146, 11843, 1280>>, <<-1, -1, 14466, 3495, 11684, 14400>>, <<-1, -2, 15383, 10554, 1162, 960>> >>,
       << <<1, 2, 8685, 14342, 653, 6632>>, <<-1, -1, 14598, 4110, 10149, 9056>>, <<-1, -2, 14876, 5909, 10395, 12312>> >>,
       << <<1, 2, 8721, 10153, 5847, 11984>>, <<-1, -1, 14725, 13789, 10951, 1600>>, <<-1, -2, 14364, 8941, 6080, 11888>> >>,
       << <<1, 2, 8757, 5964, 11042, 960>>, <<-1, -1, 14848, 15512, 1466, 15168>>, <<-1, -2, 13848, 5819, 9971, 624>> >>,
       << <<1, 2, 8793, 1775, 16236, 6312>>, <<-1, -1, 14967, 8663, 8175, 15536>>, <<-1, -2, 13327, 15504, 8387, 5752>> >>,
       << <<1, 2, 8828, 13971, 5046, 11664>>, <<-1, -1, 15081, 9036, 1420, 13168>>, <<-1, -2, 12803, 7825, 4895, 15712>> >>,
       << <<1, 2, 8864, 9782, 10241, 632>>, <<-1, -1, 15190, 16060, 13049, 6840>>, <<-1, -2, 12275, 1783, 7346, 13360>> >>,
       << <<1, 2, 8900, 5593, 15435, 5984>>, <<-1, -1, 15295, 12807, 8183, 32>>, <<-1, -2, 11743, 15, 14810, 6688>> >>,
       << <<1, 2, 8936, 1405, 4245, 11344>>, <<-1, -1, 15395, 15137, 2629, 10464>>, <<-1, -2, 11207, 5178, 4417, 8080>> >>,
       << <<1, 2, 8971, 13600, 9440, 312>>, <<-1, -1, 15491, 6165, 16342, 9816>>, <<-1, -2, 10668, 3560, 25, 11992>> >>,
       << <<1, 2, 9007, 9411, 14634, 5664>>, <<-1, -1, 15582, 1801, 10378, 10232>>, <<-1, -2, 10125, 14235, 9725, 2704>> >>,
       << <<1, 2, 9043, 5223, 3444, 11016>>, <<-1, -1, 15668, 1591, 3963, 6384>>, <<-1, -2, 9580, 7143, 12410, 11888>> >>,
       << <<1, 2, 9079, 1034, 8638, 16376>>, <<-1, -1, 15749, 5105, 11215, 7176>>, <<-1, -2, 9032, 1390, 9809, 12576>> >>,
       << <<1, 2, 9114, 13229, 13833, 5344>>, <<-1, -1, 15825, 11939, 10519, 14504>>, <<-1, -2, 8480, 16096, 12896, 13424>> >>,
       << <<1, 2, 9150, 9041, 2643, 10696>>, <<-1, -1, 15897, 5327, 12087, 4392>>, <<-1, -3, 15854, 9721, 7319, 2296>> >>,
       << <<1, 2, 9186, 4852, 7837, 16048>>, <<-1, -1, 15964, 1296, 10704, 14448>>, <<-1, -3, 14742, 6427, 6584, 13296>> >>,
       << <<1, 2, 9191, 6594, 10920, 9792>>, <<-1, -1, 15973, 3586, 11037, 2888>>, <<-1, -3, 14583, 2161, 8264, 11336>> >>,
       << <<1, 2, 9222, 663, 13032, 5016>>, <<-1, -1, 16025, 15897, 3904, 1016>>, <<-1, -3, 13625, 11478, 2123, 2096>> >>,
       << <<1, 2, 9257, 12859, 1842, 10376>>, <<-1, -1, 16082, 16052, 10006, 13840>>, <<-1, -3, 12504, 14062, 11980, 4672>> >>,
       << <<1, 2, 9293, 8670, 7036, 15728>>, <<-1, -1, 16135, 1478, 4131, 8376>>, <<-1, -3, 11380, 3391, 366, 7240>> >>,
       << <<1, 2, 9329, 4481, 12231, 4696>>, <<-1, -1, 16182, 4682, 1532, 8920>>, <<-1, -3, 10252, 1459, 13578, 7128>> >>,
       << <<1, 2, 9358, 8501, 14991, 12056>>, <<-1, -1, 16217, 3842, 1800, 6008>>, <<-1, -3, 9326, 12210, 488, 9968>> >>,
       << <<1, 2, 9365, 293, 1041, 10048>>, <<-1, -1, 16224, 9044, 9746, 9160>>, <<-1, -3, 9120, 13899, 4531, 12600>> >>,
       << <<1, 2, 9400, 12488, 6235, 15408>>, <<-1, -1, 16261, 14354, 13383, 13408>>, <<-1, -4, 15973, 10790, 2540, 5608>> >>,
       << <<1, 2, 9436, 8299, 11430, 4368>>, <<-1, -1, 16294, 4042, 7948, 15920>>, <<-1, -4, 13700, 12365, 10122, 15640>> >>,
       << <<1, 2, 9436, 8299, 11430, 4376>>, <<-1, -1, 16294, 4042, 7948, 15928>>, <<-1, -4, 13700, 12365, 10122, 15136>> >>,
       << <<1, 2, 9472, 4111, 240, 9728>>, <<-1, -1, 16321, 10714, 770, 11536>>, <<-1, -4, 11423, 11100, 6224, 2112>> >>,
       << <<1, 2, 9507, 16306, 5434, 15080>>, <<-1, -1, 16344, 1464, 11807, 16304>>, <<-1, -4, 9143, 1974, 11594, 2528>> >>,
       << <<1, 2, 9543, 12117, 10629, 4048>>, <<-1, -1, 16361, 8950, 8796, 12520>>, <<-1, -5, 13719, 9124, 7673, 2704>> >>,
       << <<1, 2, 9579, 7928, 15823, 9408>>, <<-1, -1, 16374, 316, 6112, 11064>>, <<-1, -5, 9148, 11364, 16123, 8264>> >>,
       << <<1, 2, 9615, 3740, 4633, 14760>>, <<-1, -1, 16381, 8267, 16053, 15440>>, <<-1, -6, 9150, 1429, 12603, 10448>> >>,
       << <<1, 2, 9650, 15935, 9828, 3728>>, <<-1, 0, 8192, 0, 0, 0>>, <<-1, -53, 13554, 7334, 5073, 4176>> >>,
       << <<1, 2, 9686, 11746, 15022, 9080>>, <<-1, -1, 16381, 8267, 16053, 15440>>, <<1, -6, 9150, 1429, 12603, 9600>> >>,
       << <<1, 2, 9722, 7558, 3832, 14440>>, <<-1, -1, 16374, 316, 6112, 11064>>, <<1, -5, 9148, 11364, 16123, 8864>> >>,
       << <<1, 2, 9758, 3369, 9027, 3408>>, <<-1, -1, 16361, 8950, 8796, 12520>>, <<1, -5, 13719, 9124, 7673, 2288>> >>,
       << <<1, 2, 9793, 15564, 14221, 8760>>, <<-1, -1, 16344, 1464, 11807, 16312>>, <<1, -4, 9143, 1974, 11594, 2320>> >>,
       << <<1, 2, 9829, 11376, 3031, 14112>>, <<-1, -1, 16321, 10714, 770, 11536>>, <<1, -4, 11423, 11100, 6224, 1904>> >>,
       << <<1, 2, 9865, 7187, 8226, 3080>>, <<-1, -1, 16294, 4042, 7948, 15928>>, <<1, -4, 13700, 12365, 10122, 14920>> >>,
       << <<1, 2, 9901, 2998, 13420, 8440>>, <<-1, -1, 16261, 14354, 13383, 13400>>, <<1, -4, 15973, 10790, 2540, 5904>> >>,
       << <<1, 2, 9936, 15194, 2230, 13792>>, <<-1, -1, 16224, 9044, 9746, 9168>>, <<1, -3, 9120, 13899, 4531, 12496>> >>,
       << <<1, 2, 9972, 11005, 7425, 2760>>, <<-1, -1, 16182, 4682, 1532, 8928>>, <<1, -3, 10252, 1459, 13578, 7024>> >>,
       << <<1, 2, 10008, 6816, 12619, 8112>>, <<-1, -1, 16135, 1478, 4131, 8384>>, <<1, -3, 11380, 3391, 366, 7136>> >>,
       << <<1, 2, 10044, 2628, 1429, 13472>>, <<-1, -1, 16082, 16052, 10006, 13832>>, <<1, -3, 12504, 14062, 11980, 4816>> >>,
       << <<1, 2, 10079, 14823, 6624, 2440>>, <<-1, -1, 16025, 15897, 3904, 1016>>, <<1, -3, 13625, 11478, 2123, 1992>> >>,
       << <<1, 2, 10115, 10634, 11818, 7792>>, <<-1, -1, 15964, 1296, 10704, 14456>>, <<1, -3, 14742, 6427, 6584, 13200>> >>,
       << <<1, 2, 10151, 6446, 628, 13144>>, <<-1, -1, 15897, 5327, 12087, 4400>>, <<1, -3, 15854, 9721, 7319, 2200>> >>,
       << <<1, 2, 10187, 2257, 5823, 2112>>, <<-1, -1, 15825, 11939, 10519, 14512>>, <<1, -2, 8480, 16096, 12896, 13376>> >>,
       << <<1, 2, 10222, 14452, 11017, 7472>>, <<-1, -1, 15749, 5105, 11215, 7160>>, <<1, -2, 9032, 1390, 9809, 12648>> >>,
       << <<1, 2, 10258, 10263, 16211, 12824>>, <<-1, -1, 15668, 1591, 3963, 6392>>, <<1, -2, 9580, 7143, 12410, 11832>> >>,
       << <<1, 2, 10294, 6075, 5022, 1792>>, <<-1, -1, 15582, 1801, 10378, 10240>>, <<1, -2, 10125, 14235, 9725, 2656>> >>,
       << <<1, 2, 10330, 1886, 10216, 7144>>, <<-1, -1, 15491, 6165, 16342, 9824>>, <<1, -2, 10668, 3560, 25, 11944>> >>,
       << <<1, 2, 10365, 14081, 15410, 12504>>, <<-1, -1, 15395, 15137, 2629, 10456>>, <<1, -2, 11207, 5178, 4417, 8144>> >>,
       << <<1, 2, 10401, 9893, 4221, 1472>>, <<-1, -1, 15295, 12807, 8183, 40>>, <<1, -2, 11743, 15, 14810, 6640>> >>,
       << <<1, 2, 10437, 5704, 9415, 6824>>, <<-1, -1, 15190, 16060, 13049, 6848>>, <<1, -2, 12275, 1783, 7346, 13312>> >>,
       << <<1, 2, 10473, 1515, 14609, 12176>>, <<-1, -1, 15081, 9036, 1420, 13184>>, <<1, -2, 12803, 7825, 4895, 15664>> >>,
       << <<1, 2, 10508, 13711, 3420, 1144>>, <<-1, -1, 14967, 8663, 8175, 15544>>, <<1, -2, 13327, 15504, 8387, 5704>> >>,
       << <<1, 2, 10528, 5468, 10721, 11512>>, <<-1, -1, 14903, 6727, 7621, 8360>>, <<1, -2, 13612, 5228, 14562, 5496>> >>,
       << <<1, 2, 10544, 9522, 8614, 6504>>, <<-1, -1, 14848, 15512, 1466, 15160>>, <<1, -2, 13848, 5819, 9971, 688>> >>,
       << <<1, 2, 10580, 5333, 13808, 11856>>, <<-1, -1, 14725, 13789, 10951, 1616>>, <<1, -2, 14364, 8941, 6080, 11840>> >>,
       << <<1, 2, 10616, 1145, 2619, 824>>, <<-1, -1, 14598, 4110, 10149, 9072>>, <<1, -2, 14876, 5909, 10395, 12272>> >>,
       << <<1, 2, 10651, 13340, 7813, 6176>>, <<-1, -1, 14466, 3495, 11684, 14408>>, <<1, -2, 15383, 10554, 1162, 912>> >>,
       << <<1, 2, 10687, 9151, 13007, 11536>>, <<-1, -1, 14329, 12603, 14951, 3624>>, <<1, -2, 15886, 3958, 15860, 1928>> >>,
       << <<1, 2, 10723, 4963, 1818, 496>>, <<-1, -1, 14188, 15732, 2825, 9584>>, <<1, -2, 16383, 16383, 16383, 16288>> >>,
       << <<1, 2, 10723, 4963, 1818, 504>>, <<-1, -1, 14188, 15732, 2825, 9552>>, <<1, -1, 8192, 0, 0, 8>> >>,
       << <<1, 2, 10759, 774, 7012, 5856>>, <<-1, -1, 14043, 13583, 3805, 5872>>, <<1, -1, 8438, 6288, 8123, 14488>> >>,
       << <<1, 2, 10794, 12969, 12206, 11208>>, <<-1, -1, 13894, 6881, 6581, 2616>>, <<1, -1, 8682, 3231, 5531, 10560>> >>,
       << <<1, 2, 10830, 8781, 1017, 176>>, <<-1, -1, 13740, 12756, 5573, 16112>>, <<1, -1, 8923, 5995, 11790, 14536>> >>,
       << <<1, 2, 10866, 4592, 6211, 5536>>, <<-1, -1, 13582, 15590, 13597, 13600>>, <<1, -1, 9161, 13378, 575, 10400>> >>,
       << <<1, 2, 10902, 403, 11405, 10888>>, <<-1, -1, 13420, 16172, 8880, 14904>>, <<1, -1, 9397, 7804, 3977, 3008>> >>,
       << <<1, 2, 10937, 12599, 215, 16240>>, <<-1, -1, 13254, 15309, 13054, 9544>>, <<1, -1, 9630, 4482, 3755, 4832>> >>,
       << <<1, 2, 10973, 8410, 5410, 5208>>, <<-1, -1, 13084, 13831, 5199, 4272>>, <<1, -1, 9860, 2250, 2743, 13720>> >>,
       << <<1, 2, 11009, 4221, 10604, 10568>>, <<-1, -1, 12910, 12585, 16012, 7808>>, <<1, -1, 10086, 16344, 14265, 2520>> >>,
       << <<1, 2, 11029, 11190, 6551, 1920>>, <<-1, -1, 12809, 8634, 8379, 12896>>, <<1, -1, 10215, 4209, 4477, 11904>> >>,
       << <<1, 2, 11045, 32, 15798, 15920>>, <<-1, -1, 12732, 12442, 8884, 6456>>, <<1, -1, 10310, 12866, 2319, 5616>> >>,
       << <<1, 2, 11080, 12228, 4609, 4888>>, <<-1, -1, 12550, 14289, 6634, 464>>, <<1, -1, 10531, 7081, 1922, 12512>> >>,
       << <<1, 2, 11116, 8039, 9803, 10240>>, <<-1, -1, 12365, 2650, 5155, 8648>>, <<1, -1, 10748, 14272, 9993, 16016>> >>,
       << <<1, 2, 11152, 3850, 14997, 15592>>, <<-1, -1, 12175, 11220, 1655, 13864>>, <<1, -1, 10963, 587, 7233, 7840>> >>,
       << <<1, 2, 11152, 3850, 14997, 15600>>, <<-1, -1, 12175, 11220, 1655, 13824>>, <<1, -1, 10963, 587, 7233, 7888>> >>,
       << <<1, 2, 11187, 16046, 3808, 4568>>, <<-1, -1, 11982, 8176, 6413, 3080>>, <<1, -1, 11173, 14108, 12691, 8544>> >>,
       << <<1, 2, 11223, 11857, 9002, 9920>>, <<-1, -1, 11785, 10867, 5289, 10696>>, <<1, -1, 11381, 4632, 7182, 6272>> >>,
       << <<1, 2, 11259, 7668, 14196, 15272>>, <<-1, -1, 11585, 3891, 4071, 7792>>, <<1, -1, 11585, 3891, 4071, 7768>> >>,
       << <<1, 2, 11295, 3480, 3007, 4240>>, <<-1, -1, 11381, 4632, 7182, 6296>>, <<1, -1, 11785, 10867, 5289, 10672>> >>,
       << <<1, 2, 11330, 15675, 8201, 9600>>, <<-1, -1, 11173, 14108, 12691, 8520>>, <<1, -1, 11982, 8176, 6413, 3104>> >>,
       << <<1, 2, 11366, 11486, 13395, 14952>>, <<-1, -1, 10963, 587, 7233, 7864>>, <<1, -1, 12175, 11220, 1655, 13840>> >>,
       << <<1, 2, 11402, 7298, 2206, 3920>>, <<-1, -1, 10748, 14272, 9993, 16040>>, <<1, -1, 12365, 2650, 5155, 8624>> >>,
       << <<1, 2, 11438, 3109, 7400, 9272>>, <<-1, -1, 10531, 7081, 1922, 12536>>, <<1, -1, 12550, 14289, 6634, 440>> >>,
       << <<1, 2, 11473, 15304, 12594, 14624>>, <<-1, -1, 10310, 12866, 2319, 5640>>, <<1, -1, 12732, 12442, 8884, 6440>> >>,
       << <<1, 2, 11509, 11116, 1405, 3600>>, <<-1, -1, 10086, 16344, 14265, 2496>>, <<1, -1, 12910, 12585, 16012, 7824>> >>,
       << <<1, 2, 11545, 6927, 6599, 8952>>, <<-1, -1, 9860, 2250, 2743, 13744>>, <<1, -1, 13084, 13831, 5199, 4256>> >>,
       << <<1, 2, 11581, 2738, 11793, 14304>>, <<-1, -1, 9630, 4482, 3755, 4864>>, <<1, -1, 13254, 15309, 13054, 9528>> >>,
       << <<1, 2, 11616, 14934, 604, 3272>>, <<-1, -1, 9397, 7804, 3977, 3040>>, <<1, -1, 13420, 16172, 8880, 14888>> >>,
       << <<1, 2, 11652, 10745, 5798, 8632>>, <<-1, -1, 9161, 13378, 575, 10368>>, <<1, -1, 13582, 15590, 13597, 13616>> >>,
       << <<1, 2, 11688, 6556, 10992, 13984>>, <<-1, -1, 8923, 5995, 11790, 14560>>, <<1, -1, 13740, 12756, 5573, 16096>> >>,
       << <<1, 2, 11698, 2435, 6451, 10976>>, <<-1, -1, 8857, 14076, 5995, 80>>, <<1, -1, 13783, 1603, 11422, 1488>> >>,
       << <<1, 2, 11724, 2367, 16187, 2952>>, <<-1, -1, 8682, 3231, 5531, 10584>>, <<1, -1, 13894, 6881, 6581, 2600>> >>,
       << <<1, 2, 11759, 14563, 4997, 8304>>, <<-1, -1, 8438, 6288, 8123, 14512>>, <<1, -1, 14043, 13583, 3805, 5856>> >>,
       << <<1, 2, 11795, 10374, 10191, 13656>>, <<-1, -1, 8192, 0, 0, 32>>, <<1, -1, 14188, 15732, 2825, 9536>> >>,
       << <<1, 2, 11831, 6185, 15386, 2632>>, <<-1, -2, 15886, 3958, 15860, 1872>>, <<1, -1, 14329, 12603, 14951, 3640>> >>,
       << <<1, 2, 11867, 1997, 4196, 7984>>, <<-1, -2, 15383, 10554, 1162, 968>>, <<1, -1, 14466, 3495, 11684, 14392>> >>,
       << <<1, 2, 11902, 14192, 9390, 13336>>, <<-1, -2, 14876, 5909, 10395, 12320>>, <<1, -1, 14598, 4110, 10149, 9056>> >>,
       << <<1, 2, 11938, 10003, 14585, 2304>>, <<-1, -2, 14364, 8941, 6080, 11896>>, <<1, -1, 14725, 13789, 10951, 1600>> >>,
       << <<1, 2, 11974, 5815, 3395, 7664>>, <<-1, -2, 13848, 5819, 9971, 632>>, <<1, -1, 14848, 15512, 1466, 15168>> >>,
       << <<1, 2, 12010, 1626, 8589, 13008>>, <<-1, -2, 13327, 15504, 8387, 5872>>, <<1, -1, 14967, 8663, 8175, 15504>> >>,
       << <<1, 2, 12010, 1626, 8589, 13016>>, <<-1, -2, 13327, 15504, 8387, 5760>>, <<1, -1, 14967, 8663, 8175, 15536>> >>,
       << <<1, 2, 12045, 13821, 13784, 1984>>, <<-1, -2, 12803, 7825, 4895, 15720>>, <<1, -1, 15081, 9036, 1420, 13168>> >>,
       << <<1, 2, 12081, 9633, 2594, 7336>>, <<-1, -2, 12275, 1783, 7346, 13368>>, <<1, -1, 15190, 16060, 13049, 6840>> >>,
       << <<1, 2, 12117, 5444, 7788, 12688>>, <<-1, -2, 11743, 15, 14810, 6696>>, <<1, -1, 15295, 12807, 8183, 24>> >>,
       << <<1, 2, 12153, 1255, 12983, 1664>>, <<-1, -2, 11207, 5178, 4417, 8088>>, <<1, -1, 15395, 15137, 2629, 10464>> >>,
       << <<1, 2, 12188, 13451, 1793, 7016>>, <<-1, -2, 10668, 3560, 25, 12000>>, <<1, -1, 15491, 6165, 16342, 9816>> >>,
       << <<1, 2, 12224, 9262, 6987, 12368>>, <<-1, -2, 10125, 14235, 9725, 2712>>, <<1, -1, 15582, 1801, 10378, 10232>> >>,
       << <<1, 2, 12260, 5073, 12182, 1336>>, <<-1, -2, 9580, 7143, 12410, 11896>>, <<1, -1, 15668, 1591, 3963, 6384>> >>,
       << <<1, 2, 12296, 885, 992, 6696>>, <<-1, -2, 9032, 1390, 9809, 12584>>, <<1, -1, 15749, 5105, 11215, 7168>> >>,
       << <<1, 2, 12331, 13080, 6186, 12048>>, <<-1, -2, 8480, 16096, 12896, 13432>>, <<1, -1, 15825, 11939, 10519, 14504>> >>,
       << <<1, 2, 12367, 8891, 11381, 1016>>, <<-1, -3, 15854, 9721, 7319, 2320>>, <<1, -1, 15897, 5327, 12087, 4392>> >>,
       << <<1, 2, 12403, 4703, 191, 6368>>, <<-1, -3, 14742, 6427, 6584, 13320>>, <<1, -1, 15964, 1296, 10704, 14448>> >>,
       << <<1, 2, 12439, 514, 5385, 11720>>, <<-1, -3, 13625, 11478, 2123, 2120>>, <<1, -1, 16025, 15897, 3904, 1016>> >>,
       << <<1, 2, 12439, 514, 5385, 11728>>, <<-1, -3, 13625, 11478, 2123, 1864>>, <<1, -1, 16025, 15897, 3904, 1024>> >>,
       << <<1, 2, 12474, 12709, 10580, 696>>, <<-1, -3, 12504, 14062, 11980, 4688>>, <<1, -1, 16082, 16052, 10006, 13840>> >>,
       << <<1, 2, 12510, 8520, 15774, 6048>>, <<-1, -3, 11380, 3391, 366, 7256>>, <<1, -1, 16135, 1478, 4131, 8376>> >>,
       << <<1, 2, 12546, 4332, 4584, 11400>>, <<-1, -3, 10252, 1459, 13578, 7152>>, <<1, -1, 16182, 4682, 1532, 8920>> >>,
       << <<1, 2, 12582, 143, 9779, 368>>, <<-1, -3, 9120, 13899, 4531, 12616>>, <<1, -1, 16224, 9044, 9746, 9160>> >>,
       << <<1, 2, 12617, 12338, 14973, 5728>>, <<-1, -4, 15973, 10790, 2540, 5640>>, <<1, -1, 16261, 14354, 13383, 13408>> >>,
       << <<1, 2, 12653, 8150, 3783, 11080>>, <<-1, -4, 13700, 12365, 10122, 15168>>, <<1, -1, 16294, 4042, 7948, 15920>> >>,
       << <<1, 2, 12689, 3961, 8978, 48>>, <<-1, -4, 11423, 11100, 6224, 2152>>, <<1, -1, 16321, 10714, 770, 11536>> >>,
       << <<1, 2, 12724, 16156, 14172, 5400>>, <<-1, -4, 9143, 1974, 11594, 2560>>, <<1, -1, 16344, 1464, 11807, 16304>> >>,
       << <<1, 2, 12760, 11968, 2982, 10752>>, <<-1, -5, 13719, 9124, 7673, 2776>>, <<1, -1, 16361, 8950, 8796, 12520>> >>,
       << <<1, 2, 12796, 7779, 8176, 16112>>, <<-1, -5, 9148, 11364, 16123, 8336>>, <<1, -1, 16374, 316, 6112, 11064>> >>,
       << <<1, 2, 12832, 3590, 13371, 5080>>, <<-1, -6, 9150, 1429, 12603, 10592>>, <<1, -1, 16381, 8267, 16053, 15440>> >>,
       << <<1, 2, 12867, 15786, 2181, 10424>>, <<-1, -50, 10451, 1222, 6306, 14352>>, <<1, 0, 8192, 0, 0, 0>> >>,
       << <<1, 2, 12867, 15786, 2181, 10432>>, <<-1, -52, 9036, 4889, 8843, 8248>>, <<1, 0, 8192, 0, 0, 0>> >> >>
RECURSIVE Find(_, _, _, _)
\* the row of the angle x > 0 among the rows lo..hi of a table in ascending
\* order of angle; an angle the table does not hold has no row
Find(table, x, lo, hi) ==
    IF lo > hi THEN CHOOSE row \in {} : TRUE
    ELSE IF table[(lo + hi) \div 2][1] = x THEN table[(lo + hi) \div 2]
    ELSE IF MagnitudeGE(x, table[(lo + hi) \div 2][1])
    THEN Find(table, x, (lo + hi) \div 2 + 1, hi)
    ELSE Find(table, x, lo, (lo + hi) \div 2 - 1)

Row(table, x) == Find(table, x, 1, Len(table))

\* a with the sign of x
CopySign(a, x) == IF x[1] < 0 THEN FNeg(a) ELSE a

\* np.sin(x) of an angle in radians: sin(-x) = -sin(x)
np_sin(x) == IF x[1] = 0 THEN Zero ELSE CopySign(Row(TrigTable, FAbs(x))[2], x)

\* np.cos(x) of an angle in radians: cos(-x) = cos(x)
np_cos(x) == IF x[1] = 0 THEN FromInt(1) ELSE Row(TrigTable, FAbs(x))[3]

\* np.linspace(0, 2*np.pi, segments, endpoint=False): the multiples
\* 0, 1, ..., segments-1 of the step 2*pi / segments
linspace(segments) ==
    LET step == FDiv(FMul(FromInt(2), np_pi), segments)
    IN  [i \in 1..segments |-> FMul(FromInt(i - 1), step)]

\* v + w for two 3-vectors
VecAdd(v, w) == <<FAdd(v[1], w[1]), FAdd(v[2], w[2]), FAdd(v[3], w[3])>>

\* the list [a, b, c] of three decimal literals, given in thousandths
Vec(a, b, c) == <<Float(a), Float(b), Float(c)>>

---------------------------------------------------------------------------
(* 1. Primitive generation functions *)

create_cube_mesh(center, size) ==
    LET x == center[1]
        y == center[2]
        z == center[3]
        sx == FDiv(size[1], 2)
        sy == FDiv(size[2], 2)
        sz == FDiv(size[3], 2)
        v == << <<FSub(x, sx), FSub(y, sy), FSub(z, sz)>>,
                <<FAdd(x, sx), FSub(y, sy), FSub(z, sz)>>,
                <<FAdd(x, sx), FAdd(y, sy), FSub(z, sz)>>,
                <<FSub(x, sx), FAdd(y, sy), FSub(z, sz)>>,
                <<FSub(x, sx), FSub(y, sy), FAdd(z, sz)>>,
                <<FAdd(x, sx), FSub(y, sy), FAdd(z, sz)>>,
                <<FAdd(x, sx), FAdd(y, sy), FAdd(z, sz)>>,
                <<FSub(x, sx), FAdd(y, sy), FAdd(z, sz)>> >>
        faces == << <<0, 1, 2>>, <<0, 2, 3>>,
                    <<4, 5, 6>>, <<4, 6, 7>>,
                    <<0, 1, 5>>, <<0, 5, 4>>,
                    <<3, 2, 6>>, <<3, 6, 7>>,
                    <<0, 3, 7>>, <<0, 7, 4>>,
                    <<1, 2, 6>>, <<1, 6, 5>> >>
    IN  [vertices |-> v, faces |-> faces]

create_cylinder_mesh(center, radius, height, segments) ==
    LET theta == linspace(segments)
        x_circle == [i \in 1..segments |-> FMul(radius, np_cos(theta[i]))]
        y_circle == [i \in 1..segments |-> FMul(radius, np_sin(theta[i]))]
        v_bottom == [i \in 1..segments |->
                       <<FAdd(x_circle[i], center[1]), FAdd(y_circle[i], center[2]),
                         FSub(center[3], FDiv(height, 2))>>]
        v_top == [i \in 1..segments |->
                    <<FAdd(x_circle[i], center[1]), FAdd(y_circle[i], center[2]),
                      FAdd(center[3], FDiv(height, 2))>>]
        v_center_bottom == << <<center[1], center[2], FSub(center[3], FDiv(height, 2))>> >>
        v_center_top == << <<center[1], center[2], FAdd(center[3], FDiv(height, 2))>> >>
        vertices == v_bottom \o v_top \o v_center_bottom \o v_center_top
        idx_center_bottom == 2 * segments
        idx_center_top == 2 * segments + 1
        bottom_cap == [n \in 1..segments |->
                         LET i == n - 1
                         IN  <<i, (i + 1) % segments, idx_center_bottom>>]
        top_cap == [n \in 1..segments |->
                      LET i == n - 1
                      IN  <<segments + i, segments + ((i + 1) % segments), idx_center_top>>]
        side == [n \in 1..(2 * segments) |->
                   LET i == (n - 1) \div 2
                       v0 == i
                       v1 == (i + 1) % segments
                       v2 == segments + ((i + 1) % segments)
                       v3 == segments + i
                   IN  IF n % 2 = 1 THEN <<v0, v1, v2>> ELSE <<v0, v2, v3>>]
    IN  [vertices |-> vertices, faces |-> bottom_cap \o top_cap \o side]

\* create_cone_mesh returning the side faces alone, the base cap left out
create_cone_mesh_uncapped(center, radius, height, segments) ==
    LET theta == linspace(segments)
        x_circle == [i \in 1..segments |-> FMul(radius, np_cos(theta[i]))]
        y_circle == [i \in 1..segments |-> FMul(radius, np_sin(theta[i]))]
        v_base == [i \in 1..segments |->
                     <<FAdd(x_circle[i], center[1]), FAdd(y_circle[i], center[2]),
                       center[3]>>]
        v_apex == << <<center[1], center[2], FAdd(center[3], height)>> >>
        v_center_base == << <<center[1], center[2], center[3]>> >>
        vertices == v_base \o v_apex \o v_center_base
        idx_apex == segments
        idx_center_base == segments + 1
        side == [n \in 1..segments |->
                   LET v0 == n - 1
                       v1 == (v0 + 1) % segments
                   IN  <<v0, v1, idx_apex>>]
        base_cap == [n \in 1..segments |->
                       LET i == n - 1
                       IN  <<i, (i + 1) % segments, idx_center_base>>]
    IN  [vertices |-> vertices, faces |-> side]

create_cone_mesh(center, radius, height, segments) ==
    LET theta == linspace(segments)
        x_circle == [i \in 1..segments |-> FMul(radius, np_cos(theta[i]))]
        y_circle == [i \in 1..segments |-> FMul(radius, np_sin(theta[i]))]
        v_base == [i \in 1..segments |->
                     <<FAdd(x_circle[i], center[1]), FAdd(y_circle[i], center[2]),
                       center[3]>>]
        v_apex == << <<center[1], center[2], FAdd(center[3], height)>> >>
        v_center_base == << <<center[1], center[2], center[3]>> >>
        vertices == v_base \o v_apex \o v_center_base
        idx_apex == segments
        idx_center_base == segments + 1
        side == [n \in 1..segments |->
                   LET v0 == n - 1
                       v1 == (v0 + 1) % segments
                   IN  <<v0, v1, idx_apex>>]
        base_cap == [n \in 1..segments |->
                       LET i == n - 1
                       IN  <<i, (i + 1) % segments, idx_center_base>>]
    IN  [vertices |-> vertices, faces |-> side \o base_cap]

\* 2 * np.pi * i / segments
TurnFraction(i, segments) == FDiv(FMul(FMul(FromInt(2), np_pi), FromInt(i)), segments)

\* the vertex of the torus at the major angle phi and the minor angle theta
torus_vertex(center, major_radius, minor_radius, phi, theta) ==
    << FAdd(FMul(FAdd(major_radius, FMul(minor_radius, np_cos(theta))), np_cos(phi)),
            center[1]),
       FAdd(FMul(FAdd(major_radius, FMul(minor_radius, np_cos(theta))), np_sin(phi)),
            center[2]),
       FAdd(FMul(minor_radius, np_sin(theta)), center[3]) >>

\* create_torus_mesh with the major index of the faces not wrapped
create_torus_mesh_unwrapped(center, major_radius, minor_radius, major_segments, minor_segments) ==
    LET vertices == [n \in 1..(major_segments * minor_segments) |->
                       torus_vertex(center, major_radius, minor_radius,
                                    TurnFraction((n - 1) \div minor_segments, major_segments),
                                    TurnFraction((n - 1) % minor_segments, minor_segments))]
        faces == [n \in 1..(2 * major_segments * minor_segments) |->
                    LET cell == (n - 1) \div 2
                        i == cell \div minor_segments
                        j == cell % minor_segments
                        v0 == i * minor_segments + j
                        v1 == i * minor_segments + ((j + 1) % minor_segments)
                        v2 == (i + 1) * minor_segments
                                 + ((j + 1) % minor_segments)
                        v3 == (i + 1) * minor_segments + j
                    IN  IF n % 2 = 1 THEN <<v0, v1, v2>> ELSE <<v0, v2, v3>>]
    IN  [vertices |-> vertices, faces |-> faces]

create_torus_mesh(center, major_radius, minor_radius, major_segments, minor_segments) ==
    LET vertices == [n \in 1..(major_segments * minor_segments) |->
                       torus_vertex(center, major_radius, minor_radius,
                                    TurnFraction((n - 1) \div minor_segments, major_segments),
                                    TurnFraction((n - 1) % minor_segments, minor_segments))]
        faces == [n \in 1..(2 * major_segments * minor_segments) |->
                    LET cell == (n - 1) \div 2
                        i == cell \div minor_segments
                        j == cell % minor_segments
                        v0 == i * minor_segments + j
                        v1 == i * minor_segments + ((j + 1) % minor_segments)
                        v2 == ((i + 1) % major_segments) * minor_segments
                                 + ((j + 1) % minor_segments)
                        v3 == ((i + 1) % major_segments) * minor_segments + j
                    IN  IF n % 2 = 1 THEN <<v0, v1, v2>> ELSE <<v0, v2, v3>>]
    IN  [vertices |-> vertices, faces |-> faces]

\* np.pi * (-0.5 + i / segments)
Latitude(i, segments) == FMul(np_pi, FAdd(Float(-500), FDiv(FromInt(i), segments)))

\* the vertex of the sphere at the latitude lat and the longitude lon
sphere_vertex(center, radius, lat, lon) ==
    << FAdd(FMul(FMul(radius, np_cos(lat)), np_cos(lon)), center[1]),
       FAdd(FMul(FMul(radius, np_cos(lat)), np_sin(lon)), center[2]),
       FAdd(FMul(radius, np_sin(lat)), center[3]) >>

\* the vertex of the sphere with z not moved by the center
sphere_vertex_unshifted(center, radius, lat, lon) ==
    << FAdd(FMul(FMul(radius, np_cos(lat)), np_cos(lon)), center[1]),
       FAdd(FMul(FMul(radius, np_cos(lat)), np_sin(lon)), center[2]),
       FMul(radius, np_sin(lat)) >>

\* create_sphere_mesh with z not moved by the center
create_sphere_mesh_unshifted(center, radius, segments) ==
    LET vertices == [n \in 1..((segments + 1) * (segments + 1)) |->
                       sphere_vertex_unshifted(center, radius,
                                     Latitude((n - 1) \div (segments + 1), segments),
                                     TurnFraction((n - 1) % (segments + 1), segments))]
        faces == [n \in 1..(2 * segments * segments) |->
                    LET cell == (n - 1) \div 2
                        i == cell \div segments
                        j == cell % segments
                        v0 == i * (segments + 1) + j
                        v1 == v0 + 1
                        v2 == (i + 1) * (segments + 1) + j + 1
                        v3 == (i + 1) * (segments + 1) + j
                    IN  IF n % 2 = 1 THEN <<v0, v1, v2>> ELSE <<v0, v2, v3>>]
    IN  [vertices |-> vertices, faces |-> faces]

create_sphere_mesh(center, radius, segments) ==
    LET vertices == [n \in 1..((segments + 1) * (segments + 1)) |->
                       sphere_vertex(center, radius,
                                     Latitude((n - 1) \div (segments + 1), segments),
                                     TurnFraction((n - 1) % (segments + 1), segments))]
        faces == [n \in 1..(2 * segments * segments) |->
                    LET cell == (n - 1) \div 2
                        i == cell \div segments
                        j == cell % segments
                        v0 == i * (segments + 1) + j
                        v1 == v0 + 1
                        v2 == (i + 1) * (segments + 1) + j + 1
                        v3 == (i + 1) * (segments + 1) + j
                    IN  IF n % 2 = 1 THEN <<v0, v1, v2>> ELSE <<v0, v2, v3>>]
    IN  [vertices |-> vertices, faces |-> faces]

---------------------------------------------------------------------------
(* Calls of the generators *)

\* center arguments: [0,0,0] and [1,-2,0.5]
Centers == { Vec(0, 0, 0), Vec(1000, -2000, 500) }

\* cube size arguments: [1,1,1], [2,2,2] and [0.2,2.5,2.0]
Sizes == { Vec(1000, 1000, 1000), Vec(2000, 2000, 2000), Vec(200, 2500, 2000) }

\* radius arguments (major radii of the torus as well): 0.7 and 1.0
Radii == { Float(700), Float(1000) }

\* minor radius arguments of the torus: 0.05 and 0.2
MinorRadii == { Float(50), Float(200) }

\* height arguments: 1 and 3
Heights == { Float(1000), Float(3000) }

SegmentCounts == 1..MaxSegments

Init ==
    /\ calls = <<>>
    /\ stdout = <<>>

\* a call that returned r and raised nothing
Returned(fn, a, r) ==
    /\ calls' = Append(calls, [fn |-> fn, args |-> a, raised |-> <<>>, ret |-> r])
    /\ UNCHANGED stdout

CallCreateCube ==
    /\ calls = <<>>
    /\ \E center \in Centers, size \in Sizes :
          Returned("create_cube_mesh", [center |-> center, size |-> size],
                   create_cube_mesh(center, size))

CallCreateCylinder ==
    /\ calls = <<>>
    /\ \E center \in Centers, radius \in Radii, height \in Heights,
          segments \in SegmentCounts :
          Returned("create_cylinder_mesh",
                   [center |-> center, radius |-> radius, height |-> height,
                    segments |-> segments],
                   create_cylinder_mesh(center, radius, height, segments))

CallCreateCone ==
    /\ calls = <<>>
    /\ \E center \in Centers, radius \in Radii, height \in Heights,
          segments \in SegmentCounts :
          Returned("create_cone_mesh",
                   [center |-> center, radius |-> radius, height |-> height,
                    segments |-> segments],
                   create_cone_mesh(center, radius, height, segments))

CallCreateTorus ==
    /\ calls = <<>>
    /\ \E center \in Centers, major_radius \in Radii, minor_radius \in MinorRadii,
          major_segments \in SegmentCounts, minor_segments \in SegmentCounts :
          Returned("create_torus_mesh",
                   [center |-> center, major_radius |-> major_radius,
                    minor_radius |-> minor_radius,
                    major_segments |-> major_segments,
                    minor_segments |-> minor_segments],
                   create_torus_mesh(center, major_radius, minor_radius,
                                     major_segments, minor_segments))

CallCreateSphere ==
    /\ calls = <<>>
    /\ \E center \in Centers, radius \in Radii, segments \in SegmentCounts :
          Returned("create_sphere_mesh",
                   [center |-> center, radius |-> radius, segments |-> segments],
                   create_sphere_mesh(center, radius, segments))

NextGen ==
    \/ CallCreateCube
    \/ CallCreateCylinder
    \/ CallCreateCone
    \/ CallCreateTorus
    \/ CallCreateSphere

SpecGen == Init /\ [][NextGen]_vars

---------------------------------------------------------------------------
(* 2. Transformation functions *)

\* vertices @ R.T : every vertex v becomes the row vector v . R^T, each
\* entry the products summed from left to right
MatMulT(vertices, R) ==
    [n \in DOMAIN vertices |->
       LET v == vertices[n]
       IN  << FAdd(FAdd(FMul(v[1], R[1][1]), FMul(v[2], R[1][2])), FMul(v[3], R[1][3])),
              FAdd(FAdd(FMul(v[1], R[2][1]), FMul(v[2], R[2][2])), FMul(v[3], R[2][3])),
              FAdd(FAdd(FMul(v[1], R[3][1]), FMul(v[2], R[3][2])), FMul(v[3], R[3][3])) >>]

translate(vertices, tx, ty, tz) ==
    [n \in DOMAIN vertices |->
       LET v == vertices[n]
       IN  <<FAdd(v[1], tx), FAdd(v[2], ty), FAdd(v[3], tz)>>]

\* the matrix Rx of rotate_x
Rx(angle_rad) ==
    << <<FromInt(1), FromInt(0), FromInt(0)>>,
       <<FromInt(0), np_cos(angle_rad), FNeg(np_sin(angle_rad))>>,
       <<FromInt(0), np_sin(angle_rad), np_cos(angle_rad)>> >>

rotate_x(vertices, angle_deg) == MatMulT(vertices, Rx(deg2rad(angle_deg)))

\* the matrix Ry of rotate_y
Ry(angle_rad) ==
    << <<np_cos(angle_rad), FromInt(0), np_sin(angle_rad)>>,
       <<FromInt(0), FromInt(1), FromInt(0)>>,
       <<FNeg(np_sin(angle_rad)), FromInt(0), np_cos(angle_rad)>> >>

rotate_y(vertices, angle_deg) == MatMulT(vertices, Ry(deg2rad(angle_deg)))

\* Rz with the sign of the upper sine lost
Rz_unsigned(angle_rad) ==
    << <<np_cos(angle_rad), np_sin(angle_rad), FromInt(0)>>,
       <<np_sin(angle_rad), np_cos(angle_rad), FromInt(0)>>,
       <<FromInt(0), FromInt(0), FromInt(1)>> >>

rotate_z_unsigned(vertices, angle_deg) == MatMulT(vertices, Rz_unsigned(deg2rad(angle_deg)))

\* the matrix Rz of rotate_z
Rz(angle_rad) ==
    << <<np_cos(angle_rad), FNeg(np_sin(angle_rad)), FromInt(0)>>,
       <<np_sin(angle_rad), np_cos(angle_rad), FromInt(0)>>,
       <<FromInt(0), FromInt(0), FromInt(1)>> >>

rotate_z(vertices, angle_deg) == MatMulT(vertices, Rz(deg2rad(angle_deg)))

scale(vertices, sx, sy, sz) ==
    [n \in DOMAIN vertices |->
       LET v == vertices[n]
       IN  <<FMul(v[1], sx), FMul(v[2], sy), FMul(v[3], sz)>>]

---------------------------------------------------------------------------
(* Calls of the transforms: a vertex set is handed from call to call, as  *)
(* build_scene hands its local "vertices" from transform to transform      *)

\* the vertex sets a chain starts from: a point off the whole numbers, three
\* points of whole coordinates, and the corners of a cube of side 2
VertexSets ==
    { << Vec(637, 2144, 3000) >>,
      << Vec(1000, 2000, 3000), Vec(-1000, 0, 2000), Vec(0, 0, 0) >>,
      create_cube_mesh(Vec(0, 0, 0), Vec(2000, 2000, 2000)).vertices }

\* angle arguments, in degrees (those of the scene graph, and their inverses)
Angles == { 90, -90, 180, -180, 120, -120, 10, -10 }

\* translation arguments: (1,0,0) and (0,-1,1)
Offsets == { Vec(1000, 0, 0), Vec(0, -1000, 1000) }

\* scale arguments: (2,1,0.5)
Factors == { Vec(2000, 1000, 500) }

TransformNames == { "translate", "rotate_x", "rotate_y", "rotate_z", "scale" }

\* the vertex sets the next transform call may be given
ChainInputs ==
    IF calls = <<>> THEN VertexSets
    ELSE IF calls[Len(calls)].fn \in TransformNames /\ Len(calls) < MaxChain
         THEN { calls[Len(calls)].ret }
         ELSE {}

CallTranslate ==
    \E vertices \in ChainInputs, t \in Offsets :
       Returned("translate", [vertices |-> vertices, params |-> t],
                translate(vertices, t[1], t[2], t[3]))

CallRotateX ==
    \E vertices \in ChainInputs, angle_deg \in Angles :
       Returned("rotate_x", [vertices |-> vertices, params |-> <<angle_deg>>],
                rotate_x(vertices, angle_deg))

CallRotateY ==
    \E vertices \in ChainInputs, angle_deg \in Angles :
       Returned("rotate_y", [vertices |-> vertices, params |-> <<angle_deg>>],
                rotate_y(vertices, angle_deg))

CallRotateZ ==
    \E vertices \in ChainInputs, angle_deg \in Angles :
       Returned("rotate_z", [vertices |-> vertices, params |-> <<angle_deg>>],
                rotate_z(vertices, angle_deg))

CallScale ==
    \E vertices \in ChainInputs, f \in Factors :
       Returned("scale", [vertices |-> vertices, params |-> f],
                scale(vertices, f[1], f[2], f[3]))

NextTransform ==
    \/ CallTranslate
    \/ CallRotateX
    \/ CallRotateY
    \/ CallRotateZ
    \/ CallScale

SpecTransform == Init /\ [][NextTransform]_vars

---------------------------------------------------------------------------
(* 3. Scene graph definition for the rocket *)

Translate(tx, ty, tz) == [type |-> "translate", params |-> <<tx, ty, tz>>]

RotateX(angle_deg) == [type |-> "rotate_x", params |-> <<angle_deg>>]

RotateY(angle_deg) == [type |-> "rotate_y", params |-> <<angle_deg>>]

RotateZ(angle_deg) == [type |-> "rotate_z", params |-> <<angle_deg>>]

Scale(sx, sy, sz) == [type |-> "scale", params |-> <<sx, sy, sz>>]

Cube(name, color, initial_size, transformations) ==
    [name |-> name, type |-> "primitive", shape |-> "cube", color |-> color,
     initial_size |-> initial_size, transformations |-> transformations]

Round(name, shape, color, initial_radius, initial_height, transformations) ==
    [name |-> name, type |-> "primitive", shape |-> shape, color |-> color,
     initial_radius |-> initial_radius, initial_height |-> initial_height,
     transformations |-> transformations]

Sphere(name, color, initial_radius, transformations) ==
    [name |-> name, type |-> "primitive", shape |-> "sphere", color |-> color,
     initial_radius |-> initial_radius, transformations |-> transformations]

Torus(name, color, initial_major_radius, initial_minor_radius, transformations) ==
    [name |-> name, type |-> "primitive", shape |-> "torus", color |-> color,
     initial_major_radius |-> initial_major_radius,
     initial_minor_radius |-> initial_minor_radius,
     transformations |-> transformations]

Group(children) == [type |-> "group", children |-> children]

scene_graph ==
    [rocket |-> Group(<<
        Round("body", "cylinder", "silver", Float(1000), Float(6000),
              <<Translate(Float(0), Float(0), Float(3000))>>),
        Round("nose_cone", "cone", "red", Float(1000), Float(3000),
              <<Translate(Float(0), Float(0), Float(6000))>>),
        Cube("fin_1", "blue", Vec(200, 2500, 2000),
             <<Translate(Float(0), Float(-1000), Float(1000)), RotateZ(0), RotateX(10)>>),
        Cube("fin_2", "blue", Vec(200, 2500, 2000),
             <<Translate(Float(0), Float(-1000), Float(1000)), RotateZ(120), RotateX(10)>>),
        Cube("fin_3", "blue", Vec(200, 2500, 2000),
             <<Translate(Float(0), Float(-1000), Float(1000)), RotateZ(240), RotateX(10)>>),
        Sphere("window_1", "lightblue", Float(300),
               <<Translate(Float(800), Float(0), Float(5000))>>),
        Sphere("window_2", "lightblue", Float(300),
               <<Translate(FMul(Float(800), np_cos(deg2rad(90))),
                           FMul(Float(800), np_sin(deg2rad(90))), Float(4000)),
                 RotateZ(90)>>),
        Sphere("window_3", "lightblue", Float(300),
               <<Translate(FMul(Float(800), np_cos(deg2rad(180))),
                           FMul(Float(800), np_sin(deg2rad(180))), Float(5000)),
                 RotateZ(180)>>),
        Round("exhaust", "cylinder", "darkgrey", Float(700), Float(1000),
              <<Translate(Float(0), Float(0), Float(-500))>>),
        Round("nozzle_1", "cone", "orange", Float(300), Float(800),
              <<Translate(Float(300), Float(300), Float(-900)), RotateX(180)>>),
        Round("nozzle_2", "cone", "orange", Float(300), Float(800),
              <<Translate(Float(-300), Float(-300), Float(-900)), RotateX(180)>>),
        Torus("ring_top", "gold", Float(1100), Float(50),
              <<Translate(Float(0), Float(0), Float(5500))>>),
        Torus("ring_bottom", "gold", Float(1100), Float(50),
              <<Translate(Float(0), Float(0), Float(1500))>>) >>)]

---------------------------------------------------------------------------
(* 4. Scene traversal *)

\* the defaults of the generators' parameters
DefaultCenter == Vec(0, 0, 0)

CylinderSegments == 20

ConeSegments == 20

SphereSegments == 20

TorusMajorSegments == 30

TorusMinorSegments == 15

\* column c of an n x 3 array: vertices[:,c-1]
Column(array, c) == [n \in DOMAIN array |-> array[n][c]]

\* Mesh3d given the first column of the faces for j as well as for i
Mesh3d_repeated_column(vertices, faces, color) ==
    [x |-> Column(vertices, 1), y |-> Column(vertices, 2), z |-> Column(vertices, 3),
     i |-> Column(faces, 1), j |-> Column(faces, 1), k |-> Column(faces, 3),
     color |-> color, opacity |-> Float(1000), flatshading |-> TRUE]

\* go.Mesh3d(x=..., y=..., z=..., i=..., j=..., k=..., color=..., opacity=1.0,
\* flatshading=True)
Mesh3d(vertices, faces, color) ==
    [x |-> Column(vertices, 1), y |-> Column(vertices, 2), z |-> Column(vertices, 3),
     i |-> Column(faces, 1), j |-> Column(faces, 2), k |-> Column(faces, 3),
     color |-> color, opacity |-> Float(1000), flatshading |-> TRUE]
\* initial_mesh with the unknown shape skipped instead of raised: an empty mesh
initial_mesh_skipping(scene_graph_node) ==
    LET shape == scene_graph_node.shape
    IN  IF shape = "cube"
        THEN [raised |-> <<>>,
              mesh |-> create_cube_mesh(DefaultCenter, scene_graph_node.initial_size)]
        ELSE IF shape = "cylinder"
        THEN [raised |-> <<>>,
              mesh |-> create_cylinder_mesh(DefaultCenter,
                                            scene_graph_node.initial_radius,
                                            scene_graph_node.initial_height,
                                            CylinderSegments)]
        ELSE IF shape = "cone"
        THEN [raised |-> <<>>,
              mesh |-> create_cone_mesh(DefaultCenter,
                                        scene_graph_node.initial_radius,
                                        scene_graph_node.initial_height,
                                        ConeSegments)]
        ELSE IF shape = "sphere"
        THEN [raised |-> <<>>,
              mesh |-> create_sphere_mesh(DefaultCenter,
                                          scene_graph_node.initial_radius,
                                          SphereSegments)]
        ELSE IF shape = "torus"
        THEN [raised |-> <<>>,
              mesh |-> create_torus_mesh(DefaultCenter,
                                         scene_graph_node.initial_major_radius,
                                         scene_graph_node.initial_minor_radius,
                                         TorusMajorSegments, TorusMinorSegments)]
        ELSE [raised |-> <<>>, mesh |-> [vertices |-> <<>>, faces |-> <<>>]]

\* "Get initial vertices and faces based on shape": the generator's result,
\* or the ValueError of an unknown shape
initial_mesh(scene_graph_node) ==
    LET shape == scene_graph_node.shape
    IN  IF shape = "cube"
        THEN [raised |-> <<>>,
              mesh |-> create_cube_mesh(DefaultCenter, scene_graph_node.initial_size)]
        ELSE IF shape = "cylinder"
        THEN [raised |-> <<>>,
              mesh |-> create_cylinder_mesh(DefaultCenter,
                                            scene_graph_node.initial_radius,
                                            scene_graph_node.initial_height,
                                            CylinderSegments)]
        ELSE IF shape = "cone"
        THEN [raised |-> <<>>,
              mesh |-> create_cone_mesh(DefaultCenter,
                                        scene_graph_node.initial_radius,
                                        scene_graph_node.initial_height,
                                        ConeSegments)]
        ELSE IF shape = "sphere"
        THEN [raised |-> <<>>,
              mesh |-> create_sphere_mesh(DefaultCenter,
                                          scene_graph_node.initial_radius,
                                          SphereSegments)]
        ELSE IF shape = "torus"
        THEN [raised |-> <<>>,
              mesh |-> create_torus_mesh(DefaultCenter,
                                         scene_graph_node.initial_major_radius,
                                         scene_graph_node.initial_minor_radius,
                                         TorusMajorSegments, TorusMinorSegments)]
        ELSE [raised |-> <<"ValueError", "Unknown primitive shape: ", shape>>]

\* one pass of the loop over the transformations: the new vertices and the
\* lines it printed
apply_transform(vertices, transform_info) ==
    LET t_type == transform_info.type
        t_params == transform_info.params
    IN  IF t_type = "translate"
        THEN [vertices |-> translate(vertices, t_params[1], t_params[2], t_params[3]),
              stdout |-> <<>>]
        ELSE IF t_type = "rotate_x"
        THEN [vertices |-> rotate_x(vertices, t_params[1]), stdout |-> <<>>]
        ELSE IF t_type = "rotate_y"
        THEN [vertices |-> rotate_y(vertices, t_params[1]), stdout |-> <<>>]
        ELSE IF t_type = "rotate_z"
        THEN [vertices |-> rotate_z(vertices, t_params[1]), stdout |-> <<>>]
        ELSE IF t_type = "scale"
        THEN [vertices |-> scale(vertices, t_params[1], t_params[2], t_params[3]),
              stdout |-> <<>>]
        ELSE [vertices |-> vertices,
              stdout |-> << <<"Warning: Unknown transformation type: ", t_type>> >>]

\* the loop's state after one more pass: the vertices the pass left and the
\* lines printed so far
after_transform(step, printed) ==
    [vertices |-> step.vertices, stdout |-> printed \o step.stdout]

RECURSIVE apply_transformations_breaking(_, _)
\* the loop leaving at the first unknown transformation type (break for skip)
apply_transformations_breaking(done, transformations) ==
    IF transformations = <<>> \/ done.stdout # <<>> THEN done
    ELSE apply_transformations_breaking(
             after_transform(apply_transform(done.vertices, Head(transformations)),
                             done.stdout),
             Tail(transformations))

RECURSIVE apply_transformations_reversed(_, _)
\* the loop running over the transformations from the last to the first
apply_transformations_reversed(done, transformations) ==
    IF transformations = <<>> THEN done
    ELSE apply_transformations_reversed(
             after_transform(apply_transform(done.vertices,
                                             transformations[Len(transformations)]),
                             done.stdout),
             SubSeq(transformations, 1, Len(transformations) - 1))

RECURSIVE apply_transformations(_, _)
\* "Apply local transformations": the loop over
\* scene_graph_node["transformations"], entered with the vertices and the
\* printed lines of done
apply_transformations(done, transformations) ==
    IF transformations = <<>> THEN done
    ELSE apply_transformations(
             after_transform(apply_transform(done.vertices, Head(transformations)),
                             done.stdout),
             Tail(transformations))

\* traces.append(go.Mesh3d(...)): the one mesh of a primitive whose loop
\* ended as done
append_mesh(done, faces, color) ==
    [raised |-> <<>>,
     traces |-> << Mesh3d(done.vertices, faces, color) >>,
     stdout |-> done.stdout]

\* the "primitive" branch of build_scene after the shape dispatch ended as
\* initial
transform_primitive(scene_graph_node, initial) ==
    IF initial.raised # <<>>
    THEN [raised |-> initial.raised, stdout |-> <<>>]
    ELSE append_mesh(apply_transformations([vertices |-> initial.mesh.vertices,
                                            stdout |-> <<>>],
                                           scene_graph_node.transformations),
                     initial.mesh.faces, scene_graph_node.color)

\* the "primitive" branch of build_scene
build_primitive(scene_graph_node) ==
    transform_primitive(scene_graph_node, initial_mesh(scene_graph_node))

RECURSIVE build_scene(_)
RECURSIVE extend_children(_, _, _)

\* the loop putting each child's traces before those collected so far
extend_children_prepending(children, traces, printed) ==
    IF children = <<>>
    THEN [raised |-> <<>>, traces |-> traces, stdout |-> printed]
    ELSE LET child == build_scene(Head(children))
         IN  IF child.raised # <<>>
             THEN [raised |-> child.raised, stdout |-> printed \o child.stdout]
             ELSE extend_children(Tail(children), child.traces \o traces,
                                  printed \o child.stdout)

\* the "group" branch of build_scene: the loop over the children, entered
\* with the traces and the printed lines so far; a child's exception ends it
extend_children(children, traces, printed) ==
    IF children = <<>>
    THEN [raised |-> <<>>, traces |-> traces, stdout |-> printed]
    ELSE LET child == build_scene(Head(children))
         IN  IF child.raised # <<>>
             THEN [raised |-> child.raised, stdout |-> printed \o child.stdout]
             ELSE extend_children(Tail(children), traces \o child.traces,
                                  printed \o child.stdout)

\* build_scene raising on a node that is neither a primitive nor a group
build_scene_strict(scene_graph_node) ==
    IF scene_graph_node.type = "primitive"
    THEN build_primitive(scene_graph_node)
    ELSE IF scene_graph_node.type = "group"
    THEN extend_children(scene_graph_node.children, <<>>, <<>>)
    ELSE [raised |-> <<"ValueError", "Unknown node type: ", scene_graph_node.type>>,
          stdout |-> <<>>]

\* build_scene(scene_graph_node): the exception it raised (<<>> for none), the
\* list it returned (when it raised none) and the lines it printed
build_scene(scene_graph_node) ==
    IF scene_graph_node.type = "primitive"
    THEN build_primitive(scene_graph_node)
    ELSE IF scene_graph_node.type = "group"
    THEN extend_children(scene_graph_node.children, <<>>, <<>>)
    ELSE [raised |-> <<>>, traces |-> <<>>, stdout |-> <<>>]

\* create_rocket_figure(): go.Figure(data=traces) and the layout's title
create_rocket_figure ==
    [data |-> build_scene(scene_graph.rocket).traces, title |-> "3D Rocket Model"]

---------------------------------------------------------------------------
(* Calls of build_scene *)

\* "shear" is no transformation type of the program
Shear(amount) == [type |-> "shear", params |-> <<amount>>]

\* the entries the longer transformation lists are made of
TransformEntries ==
    { Translate(Float(1000), Float(0), Float(0)), RotateZ(90), Shear(2) }

RECURSIVE ListsOfLength(_)
ListsOfLength(n) ==
    IF n = 0 THEN { <<>> }
    ELSE { Append(l, e) : l \in ListsOfLength(n - 1), e \in TransformEntries }

\* every list of at most MaxTransforms of these entries, and the one-entry
\* lists of the other transformation types
TransformLists ==
    UNION { ListsOfLength(n) : n \in 0..MaxTransforms }
    \cup { <<RotateX(10)>>, <<RotateY(120)>>,
           <<Scale(Float(2000), Float(1000), Float(500))>> }

\* the lists tried on the sphere and the torus, whose meshes are the largest
ShortLists ==
    { <<>>,
      <<Translate(Float(1000), Float(0), Float(0)), RotateZ(90)>>,
      <<Translate(Float(1000), Float(0), Float(0)), Shear(2), RotateZ(90)>>,
      <<RotateX(10), Scale(Float(2000), Float(1000), Float(500))>> }

\* single primitive nodes of every shape, and of a shape that is none
PrimitiveNodes ==
    UNION { { Cube("p", "blue", Vec(200, 2500, 2000), l),
              Round("p", "cylinder", "silver", Float(1000), Float(6000), l),
              Round("p", "cone", "red", Float(1000), Float(3000), l),
              [name |-> "p", type |-> "primitive", shape |-> "pyramid",
               color |-> "green", transformations |-> l] } : l \in TransformLists }
    \cup UNION { { Sphere("p", "lightblue", Float(300), l),
                   Torus("p", "gold", Float(1100), Float(50), l) } : l \in ShortLists }

\* the leaves scene trees are made of
Leaves ==
    { Cube("fin", "blue", Vec(200, 2500, 2000),
           <<Translate(Float(0), Float(-1000), Float(1000))>>),
      Round("nose_cone", "cone", "red", Float(1000), Float(3000),
            <<Shear(2), Translate(Float(0), Float(0), Float(6000))>>),
      [name |-> "tip", type |-> "primitive", shape |-> "pyramid", color |-> "green",
       transformations |-> <<>>],
      [name |-> "lamp", type |-> "light"] }

RECURSIVE TreesOfSize(_)
RECURSIVE ForestsOfSize(_)
\* the scene trees of exactly n nodes
TreesOfSize(n) ==
    IF n = 1 THEN Leaves \cup { Group(<<>>) }
    ELSE { Group(f) : f \in ForestsOfSize(n - 1) }

\* the non-empty child lists of exactly n nodes in all
ForestsOfSize(n) ==
    { <<t>> : t \in TreesOfSize(n) }
    \cup UNION { { <<t>> \o f : t \in TreesOfSize(m), f \in ForestsOfSize(n - m) }
                 : m \in 1..(n - 1) }

SceneTrees == UNION { TreesOfSize(n) : n \in 1..MaxNodes }

SceneNodes == PrimitiveNodes \cup SceneTrees

\* a call of build_scene that ended as built says: raised, or returned its
\* list of meshes, after printing its lines
Built(a, built) ==
    /\ calls' = IF built.raised # <<>>
                THEN << [fn |-> "build_scene", args |-> a, raised |-> built.raised] >>
                ELSE << [fn |-> "build_scene", args |-> a, raised |-> <<>>,
                         ret |-> built.traces] >>
    /\ stdout' = stdout \o built.stdout

CallBuildScene ==
    /\ calls = <<>>
    /\ \E scene_graph_node \in SceneNodes :
          Built([scene_graph_node |-> scene_graph_node], build_scene(scene_graph_node))

CallCreateRocketFigure ==
    /\ calls = <<>>
    /\ calls' = << [fn |-> "create_rocket_figure", args |-> <<>>, raised |-> <<>>,
                    ret |-> create_rocket_figure] >>
    /\ stdout' = stdout \o build_scene(scene_graph.rocket).stdout

Next ==
    \/ CallBuildScene
    \/ CallCreateRocketFigure

Spec == Init /\ [][Next]_vars

---------------------------------------------------------------------------
(* What the claims speak of *)

\* the last call made
LastCall == calls[Len(calls)]

Called(fn) == calls # <<>> /\ LastCall.fn = fn

KnownShapes == { "cube", "cylinder", "cone", "sphere", "torus" }

KnownTransforms == { "translate", "rotate_x", "rotate_y", "rotate_z", "scale" }

IsPrimitive(node) == node.type = "primitive"

IsGroup(node) == node.type = "group"

HasKnownShape(node) == IsPrimitive(node) /\ node.shape \in KnownShapes

HasUnknownShape(node) == IsPrimitive(node) /\ node.shape \notin KnownShapes

RECURSIVE PrimitiveLeaves(_)
RECURSIVE PrimitiveLeavesOf(_)
\* the primitive nodes of a tree, depth first and left to right
PrimitiveLeaves(node) ==
    IF IsPrimitive(node) THEN <<node>>
    ELSE IF IsGroup(node) THEN PrimitiveLeavesOf(node.children)
    ELSE <<>>

PrimitiveLeavesOf(children) ==
    IF children = <<>> THEN <<>>
    ELSE PrimitiveLeaves(Head(children)) \o PrimitiveLeavesOf(Tail(children))

RECURSIVE OnlyGroupsAndPrimitives(_)
\* a tree made of groups and primitives alone
OnlyGroupsAndPrimitives(node) ==
    \/ IsPrimitive(node)
    \/ /\ IsGroup(node)
       /\ \A n \in 1..Len(node.children) : OnlyGroupsAndPrimitives(node.children[n])

\* the vertices of a trace, as rows again
TraceVertices(trace) == [n \in 1..Len(trace.x) |-> <<trace.x[n], trace.y[n], trace.z[n]>>]

\* the faces of a trace, as rows again
TraceFaces(trace) == [n \in 1..Len(trace.i) |-> <<trace.i[n], trace.j[n], trace.k[n]>>]

\* the node build_scene was last called with
BuiltNode == LastCall.args.scene_graph_node

---------------------------------------------------------------------------
(* C1 *)

\* C1: build_scene called with a tree that holds a primitive of an unknown
\* shape, at any depth and after any siblings, raises the ValueError "Unknown
\* primitive shape" naming the first such primitive, and returns no list.
C1_UnknownShapeIsFatal ==
    Called("build_scene") =>
        LET leaves == PrimitiveLeaves(BuiltNode)
            bad == SelectSeq(leaves, HasUnknownShape)
        IN  bad # <<>> =>
                /\ LastCall.raised
                     = <<"ValueError", "Unknown primitive shape: ", bad[1].shape>>
                /\ "ret" \notin DOMAIN LastCall

\* the unknown shape sits in a group inside the root group, after a sibling
\* of a known shape, and the call raised
C1_Witness ==
    /\ Called("build_scene")
    /\ IsGroup(BuiltNode)
    /\ Len(BuiltNode.children) = 2
    /\ HasKnownShape(BuiltNode.children[1])
    /\ IsGroup(BuiltNode.children[2])
    /\ Len(BuiltNode.children[2].children) = 1
    /\ HasUnknownShape(BuiltNode.children[2].children[1])
    /\ LastCall.raised # <<>>
    /\ "ret" \notin DOMAIN LastCall

---------------------------------------------------------------------------
(* C2 *)

IsKnownTransform(transform_info) == transform_info.type \in KnownTransforms

IsUnknownTransform(transform_info) == transform_info.type \notin KnownTransforms

\* the node with the entries of unknown type taken out of its list
WithoutUnknown(node) ==
    [node EXCEPT !.transformations = SelectSeq(@, IsKnownTransform)]

\* C2: a primitive whose transformation list holds entries of an unknown
\* type is built without an exception, and its mesh is the mesh of the same
\* node with those entries removed: the step changes no vertex and the
\* entries before and after it are applied.
C2_UnknownTransformSkipped ==
    (/\ Called("build_scene")
     /\ HasKnownShape(BuiltNode)
     /\ SelectSeq(BuiltNode.transformations, IsUnknownTransform) # <<>>) =>
        /\ LastCall.raised = <<>>
        /\ LastCall.ret = build_scene(WithoutUnknown(BuiltNode)).traces

\* an unknown entry between two known ones, a warning printed, a mesh returned
C2_Witness ==
    /\ Called("build_scene")
    /\ HasKnownShape(BuiltNode)
    /\ Len(BuiltNode.transformations) = 3
    /\ IsKnownTransform(BuiltNode.transformations[1])
    /\ IsUnknownTransform(BuiltNode.transformations[2])
    /\ IsKnownTransform(BuiltNode.transformations[3])
    /\ stdout = << <<"Warning: Unknown transformation type: ", "shear">> >>
    /\ Len(LastCall.ret) = 1

---------------------------------------------------------------------------
(* C3 *)

\* C3: a tree of groups and primitives of known shapes yields one mesh per
\* primitive, in the depth-first, left-to-right order of the primitives; the
\* i-th mesh is the mesh of the i-th primitive and carries its color; a
\* group adds none of its own.
C3_OneMeshPerPrimitiveInOrder ==
    (/\ Called("build_scene")
     /\ OnlyGroupsAndPrimitives(BuiltNode)
     /\ \A n \in 1..Len(PrimitiveLeaves(BuiltNode)) :
           HasKnownShape(PrimitiveLeaves(BuiltNode)[n])) =>
        LET leaves == PrimitiveLeaves(BuiltNode)
        IN  /\ LastCall.raised = <<>>
            /\ Len(LastCall.ret) = Len(leaves)
            /\ \A n \in 1..Len(leaves) :
                  /\ LastCall.ret[n].color = leaves[n].color
                  /\ LastCall.ret[n] = build_primitive(leaves[n]).traces[1]

\* a group of two primitives of different colors, the second inside a
\* nested group, gave a list of two meshes
C3_Witness ==
    /\ Called("build_scene")
    /\ IsGroup(BuiltNode)
    /\ Len(BuiltNode.children) = 2
    /\ HasKnownShape(BuiltNode.children[1])
    /\ IsGroup(BuiltNode.children[2])
    /\ Len(BuiltNode.children[2].children) = 1
    /\ HasKnownShape(BuiltNode.children[2].children[1])
    /\ BuiltNode.children[1].color # BuiltNode.children[2].children[1].color
    /\ LastCall.raised = <<>>
    /\ Len(LastCall.ret) = 2
    /\ LastCall.ret[1].color = BuiltNode.children[1].color
    /\ LastCall.ret[2].color = BuiltNode.children[2].children[1].color

---------------------------------------------------------------------------
(* The generators' results *)

GeneratorNames ==
    { "create_cube_mesh", "create_cylinder_mesh", "create_cone_mesh",
      "create_torus_mesh", "create_sphere_mesh" }

CalledGenerator == calls # <<>> /\ LastCall.fn \in GeneratorNames

\* the call fn(**a)
Generated(fn, a) ==
    IF fn = "create_cube_mesh" THEN create_cube_mesh(a.center, a.size)
    ELSE IF fn = "create_cylinder_mesh"
    THEN create_cylinder_mesh(a.center, a.radius, a.height, a.segments)
    ELSE IF fn = "create_cone_mesh"
    THEN create_cone_mesh(a.center, a.radius, a.height, a.segments)
    ELSE IF fn = "create_torus_mesh"
    THEN create_torus_mesh(a.center, a.major_radius, a.minor_radius,
                           a.major_segments, a.minor_segments)
    ELSE create_sphere_mesh(a.center, a.radius, a.segments)

---------------------------------------------------------------------------
(* C4 *)

\* C4: every index of every face a generator returns is a valid vertex
\* index, 0 <= index < number of returned vertices, for every segment count
\* from 1 on.
C4_FaceIndicesValid ==
    CalledGenerator =>
        \A n \in 1..Len(LastCall.ret.faces) : \A c \in 1..3 :
            /\ 0 <= LastCall.ret.faces[n][c]
            /\ LastCall.ret.faces[n][c] < Len(LastCall.ret.vertices)

\* a torus whose last face wraps in both directions, from the last vertex
\* back to vertex 0
C4_Witness ==
    /\ Called("create_torus_mesh")
    /\ LastCall.args.major_segments >= 3
    /\ LastCall.args.minor_segments >= 3
    /\ LET faces == LastCall.ret.faces
           last == faces[Len(faces)]
       IN  /\ last[1] = Len(LastCall.ret.vertices) - 1
           /\ last[2] = 0

---------------------------------------------------------------------------
(* C5 *)

\* C5: the sizes of the generators' results: cube 8 vertices and 12 faces;
\* cylinder 2*segments+2 and 4*segments; cone segments+2 and 2*segments;
\* sphere (segments+1)^2 and 2*segments^2; torus major*minor and
\* 2*major*minor.
C5_SizesMatchFormulas ==
    CalledGenerator =>
        LET a == LastCall.args
            nv == Len(LastCall.ret.vertices)
            nf == Len(LastCall.ret.faces)
        IN  /\ Called("create_cube_mesh") => nv = 8 /\ nf = 12
            /\ Called("create_cylinder_mesh") =>
                  nv = 2 * a.segments + 2 /\ nf = 4 * a.segments
            /\ Called("create_cone_mesh") =>
                  nv = a.segments + 2 /\ nf = 2 * a.segments
            /\ Called("create_sphere_mesh") =>
                  /\ nv = (a.segments + 1) * (a.segments + 1)
                  /\ nf = 2 * a.segments * a.segments
            /\ Called("create_torus_mesh") =>
                  /\ nv = a.major_segments * a.minor_segments
                  /\ nf = 2 * a.major_segments * a.minor_segments

\* create_cone_mesh(radius=1, height=1, segments=4) gave 6 vertices, 8 faces
C5_Witness ==
    /\ Called("create_cone_mesh")
    /\ LastCall.args.radius = Float(1000)
    /\ LastCall.args.height = Float(1000)
    /\ LastCall.args.segments = 4
    /\ Len(LastCall.ret.vertices) = 6
    /\ Len(LastCall.ret.faces) = 8

---------------------------------------------------------------------------
(* Comparing float64 *)

\* the larger of two float64
FMax(a, b) == IF FLessEq(a, b) THEN b ELSE a

\* 2^k as a float64
TwoTo(k) == <<1, k, HalfBase, 0, 0, 0>>

\* |a - b| <= t; the rounding of a - b is monotonic, so that the rounded
\* difference is at most the float64 t exactly when the difference is
Within(a, b, t) == FLessEq(FAbs(FSub(a, b)), t)

---------------------------------------------------------------------------
(* C8 *)

\* the vectors a center is moved by: (1,0,0), (-0.5,2,3) and (0.1,0,-0.9)
Shifts == { Vec(1000, 0, 0), Vec(-500, 2000, 3000), Vec(100, 0, -900) }

\* the generator called again with its center moved by v
Moved(v) ==
    Generated(LastCall.fn, [LastCall.args EXCEPT !.center = VecAdd(@, v)])

\* C8 as claimed: with the other arguments fixed, the generator called with
\* center c+v returns, at every index k, the k-th vertex of the call with
\* center c plus v, and the same face list.
C8_ExactShift ==
    CalledGenerator =>
        \A v \in Shifts :
            /\ Len(Moved(v).vertices) = Len(LastCall.ret.vertices)
            /\ \A k \in 1..Len(LastCall.ret.vertices) :
                  Moved(v).vertices[k] = VecAdd(LastCall.ret.vertices[k], v)
            /\ Moved(v).faces = LastCall.ret.faces

\* the coordinate moved of the call with center c+v against the coordinate
\* plain of the call with center c plus the shift: the two differ by at
\* most 2^-51 times the largest magnitude among them, the coordinate plain
\* and the coordinate of the moved center
ShiftedWithinRounding(moved, plain, shift, center) ==
    Within(moved, FAdd(plain, shift),
           FMul(TwoTo(-51),
                FMax(FMax(FAbs(moved), FAbs(FAdd(plain, shift))),
                     FMax(FAbs(plain), FAbs(FAdd(center, shift))))))

\* C8 as amended: with the other arguments fixed, the generator called with
\* center c+v returns, at every index k, the k-th vertex of the call with
\* center c plus v up to the rounding of the additions (four roundings of a
\* double: each coordinate within 2^-51 times the largest magnitude among
\* the two coordinates compared, the unmoved coordinate and the moved
\* center's coordinate), and the same face list.
C8_CenterShiftTranslates ==
    CalledGenerator =>
        \A v \in Shifts :
            /\ Len(Moved(v).vertices) = Len(LastCall.ret.vertices)
            /\ \A k \in 1..Len(LastCall.ret.vertices) : \A c \in 1..3 :
                  ShiftedWithinRounding(Moved(v).vertices[k][c],
                                        LastCall.ret.vertices[k][c], v[c],
                                        LastCall.args.center[c])
            /\ Moved(v).faces = LastCall.ret.faces

\* the cylinder of radius 1 and 4 segments at center (1,-2,0.5), moved by
\* (-0.5,2,3): the vertex at a quarter turn has x = 6.1e-17 + 1 = 1 at the
\* center, and 1 - 0.5 = 0.5 when shifted, but x = 6.1e-17 + 0.5 =
\* 0.5000000000000001 at the moved center; the faces are the same
C8_Witness ==
    /\ Called("create_cylinder_mesh")
    /\ LastCall.args.center = Vec(1000, -2000, 500)
    /\ LastCall.args.radius = Float(1000)
    /\ LastCall.args.height = Float(1000)
    /\ LastCall.args.segments = 4
    /\ LastCall.ret.vertices[2] = Vec(1000, -1000, 0)
    /\ Moved(Vec(-500, 2000, 3000)).vertices[2]
          # VecAdd(LastCall.ret.vertices[2], Vec(-500, 2000, 3000))
    /\ \A c \in 1..3 :
          ShiftedWithinRounding(Moved(Vec(-500, 2000, 3000)).vertices[2][c],
                                LastCall.ret.vertices[2][c],
                                Vec(-500, 2000, 3000)[c],
                                LastCall.args.center[c])

---------------------------------------------------------------------------
(* C10 *)

\* the directed edges of a triangle
DirectedEdges(face) == { <<face[1], face[2]>>, <<face[2], face[3]>>, <<face[3], face[1]>> }

\* no directed edge belongs to two triangles of the list
ConsistentlyOriented(faces) ==
    \A m, n \in 1..Len(faces) :
        m < n => DirectedEdges(faces[m]) \cap DirectedEdges(faces[n]) = {}

\* C10: the faces of every generated mesh are consistently oriented: in the
\* face list of each generator no directed edge a -> b occurs in two
\* different triangles.
C10_ConsistentOrientation ==
    CalledGenerator => ConsistentlyOriented(LastCall.ret.faces)

---------------------------------------------------------------------------
(* C6 *)

\* the node with another transformation list
WithTransformations(node, transformations) ==
    [node EXCEPT !.transformations = transformations]

\* the vertices of the one mesh build_scene makes of a primitive
BuiltVertices(node) == TraceVertices(build_scene(node).traces[1])

\* C6: build_scene applies the transformation list in its declared order:
\* with no entry the vertices are the generated ones, and with n entries they
\* are the n-th transform applied to the vertices built with the first n-1.
\* The order shows: under [translate(1,0,0), rotate_z(90)] every vertex lies
\* elsewhere than under [rotate_z(90), translate(1,0,0)].
C6_TransformsInDeclaredOrder ==
    (Called("build_scene") /\ HasKnownShape(BuiltNode)) =>
        LET ts == BuiltNode.transformations
            n == Len(ts)
            built == TraceVertices(LastCall.ret[1])
        IN  /\ n = 0 => built = initial_mesh(BuiltNode).mesh.vertices
            /\ n > 0 =>
                  built = apply_transform(
                              BuiltVertices(WithTransformations(BuiltNode,
                                                                SubSeq(ts, 1, n - 1))),
                              ts[n]).vertices
            /\ ts = <<Translate(Float(1000), Float(0), Float(0)), RotateZ(90)>> =>
                  LET swapped == BuiltVertices(WithTransformations(BuiltNode,
                                     <<RotateZ(90),
                                       Translate(Float(1000), Float(0), Float(0))>>))
                  IN  \A k \in 1..Len(built) : built[k] # swapped[k]

\* the fin cube under [translate(1,0,0), rotate_z(90)]: its corner
\* (-0.1,-1.25,-1) has gone to (0.9,-1.25,-1) and then to
\* (1.25,0.8999999999999999,-1), the double one step below 0.9
C6_Witness ==
    /\ Called("build_scene")
    /\ HasKnownShape(BuiltNode)
    /\ BuiltNode.shape = "cube"
    /\ BuiltNode.transformations
          = <<Translate(Float(1000), Float(0), Float(0)), RotateZ(90)>>
    /\ TraceVertices(LastCall.ret[1])[1]
          = << Float(1250), <<1, -1, 14745, 9830, 6553, 9824>>, Float(-1000) >>
    /\ Float(900) = <<1, -1, 14745, 9830, 6553, 9832>>

---------------------------------------------------------------------------
(* C7 *)

\* C7: whatever the transformation list of a primitive, its mesh has as many
\* vertices as the generator returned and the generator's face list, in
\* content and order.
C7_FacesUntouched ==
    (Called("build_scene") /\ HasKnownShape(BuiltNode)) =>
        LET generated == initial_mesh(BuiltNode).mesh
            trace == LastCall.ret[1]
        IN  /\ Len(LastCall.ret) = 1
            /\ TraceFaces(trace) = generated.faces
            /\ Len(trace.x) = Len(generated.vertices)
            /\ Len(trace.y) = Len(generated.vertices)
            /\ Len(trace.z) = Len(generated.vertices)

\* a torus moved, turned and given an unknown entry: 450 vertices, 900 faces
C7_Witness ==
    /\ Called("build_scene")
    /\ HasKnownShape(BuiltNode)
    /\ BuiltNode.shape = "torus"
    /\ BuiltNode.transformations
          = <<Translate(Float(1000), Float(0), Float(0)), Shear(2), RotateZ(90)>>
    /\ Len(LastCall.ret[1].x) = 450
    /\ Len(LastCall.ret[1].i) = 900
    /\ TraceVertices(LastCall.ret[1]) # initial_mesh(BuiltNode).mesh.vertices

---------------------------------------------------------------------------
(* C9 *)

RotationNames == { "rotate_x", "rotate_y", "rotate_z" }

\* calls n and n+1 rotate about the same axis by an angle and by its negative
IsRoundTrip(n) ==
    /\ n \in 1..(Len(calls) - 1)
    /\ calls[n].fn \in RotationNames
    /\ calls[n + 1].fn = calls[n].fn
    /\ calls[n + 1].args.vertices = calls[n].ret
    /\ calls[n + 1].args.params[1] = -calls[n].args.params[1]

\* the largest magnitude among the three coordinates of a vertex
LargestCoordinate(v) == FMax(FMax(FAbs(v[1]), FAbs(v[2])), FAbs(v[3]))

\* the floating-point tolerance of a round trip: the two rotations round
\* each coordinate six times and their cosine and sine are rounded too,
\* which together stays below 2^-48 times the largest coordinate of the
\* vertex
Tolerance(v) == FMul(TwoTo(-48), LargestCoordinate(v))

\* calls n and n+1 give back the vertex set call n was given, each
\* coordinate of each vertex to within the tolerance of that vertex
RestoredWithinTolerance(n) ==
    /\ Len(calls[n + 1].ret) = Len(calls[n].args.vertices)
    /\ \A k \in 1..Len(calls[n].args.vertices) : \A c \in 1..3 :
          Within(calls[n + 1].ret[k][c], calls[n].args.vertices[k][c],
                 Tolerance(calls[n].args.vertices[k]))

\* a float64 that is a whole number: the bits of its significand below the
\* binary point, 55 - e of them, are all 0
IsWhole(a) ==
    \/ a[1] = 0
    \/ a[2] >= 55
    \/ /\ a[2] >= 0
       /\ \A j \in 0..((55 - a[2]) \div 14 - 1) : Limb(a, j) = 0
       /\ Limb(a, (55 - a[2]) \div 14) % Pow2[((55 - a[2]) % 14) + 1] = 0

\* every coordinate is a whole number
WholeCoordinates(vertices) ==
    \A k \in 1..Len(vertices) : \A c \in 1..3 : IsWhole(vertices[k][c])

\* C9 as claimed: rotating a vertex set by an angle and then by its negative
\* about the same axis restores every vertex within the floating-point
\* tolerance, and exactly when the angle is a multiple of 90 degrees and the
\* coordinates are whole numbers.
C9_ExactAtRightAngles ==
    \A n \in 1..(Len(calls) - 1) :
        IsRoundTrip(n) =>
            /\ RestoredWithinTolerance(n)
            /\ (/\ calls[n].args.params[1] % 90 = 0
                /\ WholeCoordinates(calls[n].args.vertices)) =>
                   calls[n + 1].ret = calls[n].args.vertices

\* C9 as amended: rotating a vertex set by an angle and then by its negative
\* about the same axis restores every vertex within the floating-point
\* tolerance, for every angle, the multiples of 90 degrees on whole
\* coordinates included: there too a coordinate may come back a step of the
\* doubles away.
C9_RotationRoundTrip ==
    \A n \in 1..(Len(calls) - 1) :
        IsRoundTrip(n) => RestoredWithinTolerance(n)

\* the eight corners of a cube turned by 90 degrees about z and back by -90
\* degrees: the corner (-1,-1,-1) went to (0.9999999999999999,-1,-1) and
\* came back as (-0.9999999999999999,-1,-1)
C9_Witness ==
    /\ Len(calls) = 2
    /\ IsRoundTrip(1)
    /\ calls[1].fn = "rotate_z"
    /\ calls[1].args.params = <<90>>
    /\ Len(calls[1].args.vertices) = 8
    /\ WholeCoordinates(calls[1].args.vertices)
    /\ calls[1].args.vertices[1] = Vec(-1000, -1000, -1000)
    /\ calls[1].ret[1]
          = << <<1, -1, 16383, 16383, 16383, 16376>>, Float(-1000), Float(-1000) >>
    /\ calls[2].ret[1]
          = << <<-1, -1, 16383, 16383, 16383, 16376>>, Float(-1000), Float(-1000) >>
    /\ calls[2].ret[1] # calls[1].args.vertices[1]

---------------------------------------------------------------------------
(* C11 *)

IsOtherType(node) == ~IsPrimitive(node) /\ ~IsGroup(node)

RECURSIVE HasOtherType(_)
\* the tree holds a node that is neither a primitive nor a group
HasOtherType(node) ==
    \/ IsOtherType(node)
    \/ /\ IsGroup(node)
       /\ \E n \in 1..Len(node.children) : HasOtherType(node.children[n])

RECURSIVE Pruned(_)
RECURSIVE PrunedChildren(_)
\* the tree with the nodes of another type taken out of every child list
Pruned(node) ==
    IF IsGroup(node) THEN Group(PrunedChildren(node.children)) ELSE node

PrunedChildren(children) ==
    IF children = <<>> THEN <<>>
    ELSE IF IsOtherType(Head(children)) THEN PrunedChildren(Tail(children))
    ELSE <<Pruned(Head(children))>> \o PrunedChildren(Tail(children))

\* C11: build_scene called with a node whose type is neither "primitive" nor
\* "group" returns an empty list, raises nothing and prints nothing; such a
\* node among the children of a group, at any depth, is dropped: the call
\* raises nothing and returns what it returns for the tree without those
\* nodes (the meshes of the siblings), where no shape is unknown.
C11_OtherNodeTypeDropped ==
    (/\ Called("build_scene")
     /\ HasOtherType(BuiltNode)
     /\ SelectSeq(PrimitiveLeaves(BuiltNode), HasUnknownShape) = <<>>) =>
        /\ LastCall.raised = <<>>
        /\ IsOtherType(BuiltNode) => LastCall.ret = <<>> /\ stdout = <<>>
        /\ IsGroup(BuiltNode) =>
              /\ LastCall.ret = build_scene(Pruned(BuiltNode)).traces
              /\ Len(LastCall.ret) = Len(PrimitiveLeaves(BuiltNode))

\* a group of a node of another type between two primitives of known shapes
\* gave the two meshes of the primitives and no exception
C11_Witness ==
    /\ Called("build_scene")
    /\ IsGroup(BuiltNode)
    /\ Len(BuiltNode.children) = 3
    /\ HasKnownShape(BuiltNode.children[1])
    /\ IsOtherType(BuiltNode.children[2])
    /\ HasKnownShape(BuiltNode.children[3])
    /\ LastCall.raised = <<>>
    /\ Len(LastCall.ret) = 2
    /\ LastCall.ret[1].color = BuiltNode.children[1].color
    /\ LastCall.ret[2].color = BuiltNode.children[3].color

===========================================================================
